---- MODULE Spec2Model ----
(***************************************************************************)
(* visualchg: the constraint-hypergraph editor extension.                  *)
(*                                                                         *)
(* The model follows the extension host side (ChgState, the outline        *)
(* provider's parser, the details / operations / simulate providers, the   *)
(* custom editor provider) and the graph webview's message handler.  One   *)
(* .chg document is open; its text is either not JSON or a JSON document   *)
(* kept in structured form.  Asynchronous handlers are split at the awaits *)
(* that leave the extension host (workspace.applyEdit, the simulation      *)
(* subprocess).                                                            *)
(***************************************************************************)
EXTENDS Integers, Sequences, FiniteSets, TLC

VARIABLES
    doc,        \* text of the open .chg TextDocument
    provData,   \* ChgOutlineProvider.data
    st,         \* ChgState: kind, label, data, currentFrame, layout, simPath
    editor,     \* graph webview panel: subscriptions + script state
    simView,    \* simulate webview view: subscriptions + script state
    pending,    \* WorkspaceEdits handed to applyEdit and not yet applied
    sims,       \* runs of ChgSimulateProvider._simulate that are in flight
    ev,         \* the last operation, its setter calls and its notifications
    lastGood    \* history: result of the last parseChgData that succeeded

vars == <<doc, provData, st, editor, simView, pending, sims, ev, lastGood>>

-----------------------------------------------------------------------------
(* Bounds of the model *)

MaxPending == 1     \* WorkspaceEdits in flight at once
MaxSims == 1        \* simulation subprocesses in flight at once

\* the Operations view stops adding to a document of this many nodes, edges
MaxNodes == 3
MaxEdges == 3

-----------------------------------------------------------------------------
(* JavaScript values.  Strings stand for themselves; null and undefined    *)
(* are two reserved strings, so every scalar is comparable.                *)

Null == "<null>"
Undefined == "<undefined>"

IsString(v) == v \notin {Null, Undefined}

\* !v for a string-or-null value
Falsy(v) == v \in {Null, Undefined, "", "false"}

\* a ?? b
Coalesce(a, b) == IF a \in {Null, Undefined} THEN b ELSE a

\* String(i) for a small array index
IdxStr(i) == <<"0", "1", "2", "3", "4", "5">>[i + 1]

NoData == [tag |-> "null"]
NoPath == [tag |-> "null"]

SeqToSet(s) == {s[i] : i \in DOMAIN s}

-----------------------------------------------------------------------------
(* Raw JSON documents.                                                     *)
(*   text  = BadText | [shape, nodes, edges, frames]                       *)
(*   node  = [label, value, is_constant, constant]                         *)
(*   edge  = [label, source_nodes, sources, target]                        *)
(*   a sources value is [form, items]: form "array" (items' handles are    *)
(*   unused), "object" (handle -> label, in insertion order) or "none"     *)
(*   frames = sequence of [name, entries], entries a sequence of           *)
(*   [label, arr, vals]: arr says whether the value is a JSON array        *)
(* shape "invalid" is a text JSON.parse rejects; "null", "number" and      *)
(* "array" are JSON values of that type; "flat" and "nested" are objects.  *)
(* A property the object does not have is a field the record does not      *)
(* have; a nested document keeps nodes and edges in its hypergraph field.  *)
(* An array element that is an object {handle, label} has a field obj; a   *)
(* frame whose value is not an object has a field scalar.  The keys of one *)
(* object are pairwise distinct, in the order of the text.                 *)

BadText == [shape |-> "invalid"]

SrcNone == [form |-> "none", items |-> <<>>]
SrcArray(labels) == [form |-> "array", items |-> [i \in DOMAIN labels |-> [handle |-> "", label |-> labels[i]]]]
SrcObject(pairs) == [form |-> "object", items |-> pairs]

SrcScalar == [form |-> "scalar", items |-> <<>>]

\* JSON.parse succeeds
IsJson(text) == text.shape # "invalid"

\* the object has the property
Has(r, f) == f \in DOMAIN r

\* the array index a property key spells, or -1
KeyIndex(k) == IF \E i \in 0..5 : IdxStr(i) = k THEN CHOOSE i \in 0..5 : IdxStr(i) = k ELSE -1

\* the place of the i-th key of the text in the enumeration of the object:
\* integer keys first in ascending order, then the other keys as inserted
EnumRank(keys, i) ==
    LET ints == {j \in DOMAIN keys : KeyIndex(keys[j]) >= 0}
    IN  IF i \in ints
        THEN 1 + Cardinality({j \in ints : \/ KeyIndex(keys[j]) < KeyIndex(keys[i])
                                            \/ (KeyIndex(keys[j]) = KeyIndex(keys[i]) /\ j < i)})
        ELSE 1 + Cardinality(ints) + Cardinality({j \in DOMAIN keys \ ints : j < i})

\* Object.entries(JSON.parse(..)): the indices of the text's keys, enumerated
EnumOrder(keys) ==
    IF \A i \in DOMAIN keys : KeyIndex(keys[i]) < 0 THEN [i \in DOMAIN keys |-> i]
    ELSE [r \in DOMAIN keys |-> CHOOSE i \in DOMAIN keys : EnumRank(keys, i) = r]

\* JSON.stringify(raw, null, 2): an undefined array element is written as null,
\* an undefined property is dropped (it already reads as undefined here).
StringifyEntry(en) ==
    IF en.arr
    THEN [en EXCEPT !.vals = [i \in DOMAIN en.vals |-> IF en.vals[i] = Undefined THEN Null ELSE en.vals[i]]]
    ELSE en

StringifyFrame(fr) == [fr EXCEPT !.entries = [i \in DOMAIN fr.entries |-> StringifyEntry(fr.entries[i])]]

Stringify(raw) ==
    IF ~Has(raw, "frames") THEN raw
    ELSE [raw EXCEPT !.frames = [i \in DOMAIN raw.frames |-> StringifyFrame(raw.frames[i])]]

\* raw[f] = v on a document object, whether or not it had the property
Put(r, f, v) ==
    IF Has(r, f) THEN [r EXCEPT ![f] = v]
    ELSE [g \in DOMAIN r \cup {f} |-> IF g = f THEN v ELSE r[g]]

\* getNodes(raw), getEdges(raw): the array under raw.hypergraph when the
\* document has one, else the one at the top level; a missing array is made
getNodes(raw) ==
    LET hg == IF Has(raw, "hypergraph") THEN raw.hypergraph ELSE raw
    IN  IF Has(hg, "nodes") THEN hg.nodes ELSE <<>>

getEdges(raw) ==
    LET hg == IF Has(raw, "hypergraph") THEN raw.hypergraph ELSE raw
    IN  IF Has(hg, "edges") THEN hg.edges ELSE <<>>

\* raw.frames, read where the code tests `if (raw.frames)` first
getFrames(raw) == IF Has(raw, "frames") THEN raw.frames ELSE <<>>

\* the frames changed in place; nothing to change when the property is absent
editFrames(raw, frames) == IF Has(raw, "frames") THEN [raw EXCEPT !.frames = frames] ELSE raw

\* a write that always goes to the top-level array
setNodesTopLevel(raw, nodes) == Put(raw, "nodes", nodes)

\* the document after the array getNodes returned has been changed in place
setNodes(raw, nodes) ==
    IF Has(raw, "hypergraph") THEN [raw EXCEPT !.hypergraph = Put(@, "nodes", nodes)]
    ELSE Put(raw, "nodes", nodes)

setEdges(raw, edges) ==
    IF Has(raw, "hypergraph") THEN [raw EXCEPT !.hypergraph = Put(@, "edges", edges)]
    ELSE Put(raw, "edges", edges)

-----------------------------------------------------------------------------
(* parseChgData *)

ParseNode(n) ==
    LET isConst == Coalesce(n.is_constant, n.constant)
    IN  [label |-> n.label, value |-> n.value, is_constant |-> isConst, constant |-> isConst]

\* String(s) of an element of a sources array
StringOf(item) == IF Has(item, "obj") THEN "[object Object]" ELSE item.label

ParseSources(e) ==
    LET rawSources == IF e.source_nodes.form # "none" THEN e.source_nodes ELSE e.sources
    IN  IF rawSources.form = "array"
        THEN [i \in DOMAIN rawSources.items |-> [handle |-> IdxStr(i - 1), label |-> StringOf(rawSources.items[i])]]
        ELSE IF rawSources.form = "object"
        THEN LET order == EnumOrder([i \in DOMAIN rawSources.items |-> rawSources.items[i].handle])
             IN  [i \in DOMAIN rawSources.items |->
                    [handle |-> rawSources.items[order[i]].handle, label |-> rawSources.items[order[i]].label]]
        ELSE <<>>

ParseEdge(e) ==
    [label |-> e.label, sources |-> ParseSources(e), target |-> IF IsString(e.target) THEN e.target ELSE ""]

\* Array.isArray(values) ? values : [values]; a scalar v is kept as vals = <<v>>
ParseFrameEntry(en) == [label |-> en.label, vals |-> IF en.arr THEN en.vals ELSE <<en.vals[1]>>]

ParseFrame(fr) == [name |-> fr.name, entries |-> [i \in DOMAIN fr.entries |-> ParseFrameEntry(fr.entries[i])]]

HasStringLabel(x) == IsString(x.label)

FrameName(fr) == fr.name

\* frameData && typeof frameData === 'object'
IsObjectFrame(fr) == ~Has(fr, "scalar")

\* Object.entries(raw.frames)
FrameEntries(raw) ==
    IF ~Has(raw, "frames") THEN <<>>
    ELSE LET order == EnumOrder([i \in DOMAIN raw.frames |-> raw.frames[i].name])
         IN  [i \in DOMAIN raw.frames |-> raw.frames[order[i]]]

\* parseChgData that reads nodes and edges at the top level only
parseChgDataFlatOnly(text) ==
    IF text.shape \in {"invalid", "null"} THEN NoData
    ELSE LET rawNodes == IF Has(text, "nodes") THEN SelectSeq(text.nodes, HasStringLabel) ELSE <<>>
             rawEdges == IF Has(text, "edges") THEN SelectSeq(text.edges, HasStringLabel) ELSE <<>>
             rawFrames == SelectSeq(FrameEntries(text), IsObjectFrame)
         IN  [tag |-> "data",
              nodes |-> [i \in DOMAIN rawNodes |-> ParseNode(rawNodes[i])],
              edges |-> [i \in DOMAIN rawEdges |-> ParseEdge(rawEdges[i])],
              frames |-> [i \in DOMAIN rawFrames |-> ParseFrame(rawFrames[i])],
              frameNames |-> [i \in DOMAIN rawFrames |-> FrameName(rawFrames[i])]]

\* JSON.parse throws on an invalid text and raw.hypergraph throws on null;
\* every other value is read, a missing array as an empty one
parseChgData(text) ==
    IF text.shape \in {"invalid", "null"} THEN NoData
    ELSE LET hg == IF Has(text, "hypergraph") THEN text.hypergraph ELSE text
             rawNodes == IF Has(hg, "nodes") THEN SelectSeq(hg.nodes, HasStringLabel) ELSE <<>>
             rawEdges == IF Has(hg, "edges") THEN SelectSeq(hg.edges, HasStringLabel) ELSE <<>>
             rawFrames == SelectSeq(FrameEntries(text), IsObjectFrame)
         IN  [tag |-> "data",
              nodes |-> [i \in DOMAIN rawNodes |-> ParseNode(rawNodes[i])],
              edges |-> [i \in DOMAIN rawEdges |-> ParseEdge(rawEdges[i])],
              frames |-> [i \in DOMAIN rawFrames |-> ParseFrame(rawFrames[i])],
              frameNames |-> [i \in DOMAIN rawFrames |-> FrameName(rawFrames[i])]]

\* JSON.parse(JSON.stringify(data)): the model written out and read as a
\* document; a source is an object {handle, label}, every frame entry an array
ReadBack(data) ==
    [shape |-> "flat",
     nodes |-> data.nodes,
     edges |-> [i \in DOMAIN data.edges |->
                  [label |-> data.edges[i].label, source_nodes |-> SrcNone,
                   sources |-> [form |-> "array",
                                items |-> [j \in DOMAIN data.edges[i].sources |->
                                             [handle |-> data.edges[i].sources[j].handle,
                                              label |-> data.edges[i].sources[j].label, obj |-> TRUE]]],
                   target |-> data.edges[i].target]],
     frames |-> [i \in DOMAIN data.frames |->
                   StringifyFrame([name |-> data.frames[i].name,
                                   entries |-> [j \in DOMAIN data.frames[i].entries |->
                                                  [label |-> data.frames[i].entries[j].label, arr |-> TRUE,
                                                   vals |-> data.frames[i].entries[j].vals]]])],
     frameNames |-> data.frameNames]

\* the nested document with the same nodes, edges and frames
Nested(text) ==
    [shape |-> "nested", hypergraph |-> [nodes |-> text.nodes, edges |-> text.edges], frames |-> text.frames]

\* ChgOutlineProvider.getChildren for an edge item: a node-ref per source,
\* then one for the target
getChildrenEdge(data, edgeLabel) ==
    IF ~\E i \in DOMAIN data.edges : data.edges[i].label = edgeLabel THEN <<>>
    ELSE LET edge == data.edges[CHOOSE i \in DOMAIN data.edges :
                                   /\ data.edges[i].label = edgeLabel
                                   /\ \A j \in 1..(i - 1) : data.edges[j].label # edgeLabel]
             nodeSet == {data.nodes[i].label : i \in DOMAIN data.nodes}
             sourceRefs == [i \in DOMAIN edge.sources |->
                              [nodeLabel |-> edge.sources[i].label, role |-> "source",
                               missing |-> edge.sources[i].label \notin nodeSet]]
             targetRef == [nodeLabel |-> edge.target, role |-> "target",
                           missing |-> edge.target # "" /\ edge.target \notin nodeSet]
         IN  Append(sourceRefs, targetRef)

\* data?.nodes.some(n => n.label === l) ?? false
HasNode(data, l) == data # NoData /\ \E i \in DOMAIN data.nodes : data.nodes[i].label = l

HasEdge(data, l) == data # NoData /\ \E i \in DOMAIN data.edges : data.edges[i].label = l

NodeLabels(data) == IF data = NoData THEN {} ELSE {data.nodes[i].label : i \in DOMAIN data.nodes}

-----------------------------------------------------------------------------
(* The store's record of one operation: ev.calls lists the ChgState setters *)
(* entered, ev.fires the EventEmitter.fire() calls, each with what an       *)
(* observer reading the store at that moment sees.                          *)

\* the selection names a node that the store's snapshot does not hold
SelectionDangling(s) == s.kind = "NODE" /\ ~HasNode(s.data, s.label)

\* a setter is entered with `arg`; same says that the field already held it
Called(w, setter, arg, same) ==
    [w EXCEPT !.calls = Append(@, [setter |-> setter, arg |-> arg, same |-> same])]

PathTarget(path) == IF path = NoPath THEN Null ELSE path.targetNode

DataTag(data) == data.tag

\* what a listener of `event` reads from the field the event belongs to
FieldSeen(s, event) ==
    CASE event = "selection" -> s.label
      [] event = "data" -> DataTag(s.data)
      [] event = "layout" -> s.layout
      [] event = "frame" -> s.currentFrame
      [] event = "simPath" -> PathTarget(s.simPath)

Fired(w, event) ==
    [w EXCEPT !.fires = Append(@, [event |-> event, seen |-> FieldSeen(w.st, event),
                                   dangling |-> SelectionDangling(w.st)])]

-----------------------------------------------------------------------------
(* Graph webview script (chgEditorProvider.ts, the page's message listener) *)

\* the ids of the elements buildElements(data) creates
buildElements(data) ==
    IF data = NoData THEN {}
    ELSE LET nodeSet == NodeLabels(data)
         IN  {<<"n", data.nodes[i].label, "">> : i \in DOMAIN data.nodes}
             \cup {<<"e", data.edges[i].label, "">> : i \in DOMAIN data.edges}
             \cup UNION {{<<"se", data.edges[i].label, data.edges[i].sources[j].label>> :
                            j \in {k \in DOMAIN data.edges[i].sources : data.edges[i].sources[k].label \in nodeSet}} :
                         i \in DOMAIN data.edges}
             \cup {<<"te", data.edges[i].label, "">> :
                     i \in {k \in DOMAIN data.edges : data.edges[k].target # "" /\ data.edges[k].target \in nodeSet}}

STEP == 90          \* positionGroup: vertical distance of siblings
FocusNodeX == 220   \* applyFocusedNode: one column
FocusEdgeX == 200   \* applyFocusedEdge: one column

FocusClasses == {"dimmed", "selected", "label-visible"}

NodeId(label) == <<"n", label, "">>
EdgeId(label) == <<"e", label, "">>
SourceLinkId(edgeLabel, srcLabel) == <<"se", edgeLabel, srcLabel>>
TargetLinkId(edgeLabel) == <<"te", edgeLabel, "">>

\* cy.nodes(): the elements that have a position
IsCyNode(el) == el[1] \in {"n", "e"}

\* a cytoscape collection holds an element once, at its first place
RECURSIVE Uniq(_)
Uniq(s) ==
    IF s = <<>> THEN <<>>
    ELSE LET r == Uniq(SubSeq(s, 1, Len(s) - 1))
         IN  IF \E j \in DOMAIN r : r[j] = s[Len(s)] THEN r ELSE Append(r, s[Len(s)])

RECURSIVE Flatten(_)
Flatten(ss) == IF ss = <<>> THEN <<>> ELSE Head(ss) \o Flatten(Tail(ss))

\* the edge that the element e:label was built from
EdgeOf(data, label) ==
    data.edges[CHOOSE i \in DOMAIN data.edges :
                   data.edges[i].label = label /\ \A j \in 1..(i - 1) : data.edges[j].label # label]

\* the labels of the source links built for an edge, in source order
LinkedSources(data, edge) ==
    LET labels == [j \in DOMAIN edge.sources |-> edge.sources[j].label]
    IN  Uniq(SelectSeq(labels, LAMBDA l : l \in NodeLabels(data)))

HasTargetLink(data, edge) == edge.target # "" /\ edge.target \in NodeLabels(data)

EdgeLabels(edges) == Uniq([i \in DOMAIN edges |-> edges[i].label])

\* central.incomers('node[type="chg-edge"]')
LeadEdges(data, label) ==
    EdgeLabels(SelectSeq(data.edges, LAMBDA e : EdgeOf(data, e.label).target = label))

\* central.outgoers('node[type="chg-edge"]')
TrailEdges(data, label) ==
    EdgeLabels(SelectSeq(data.edges, LAMBDA e : label \in SeqToSet(LinkedSources(data, EdgeOf(data, e.label)))))

\* edgeNodes.incomers('node[type="chg-node"]')
SourcesOf(data, edgeLabels) ==
    Uniq(Flatten([i \in DOMAIN edgeLabels |-> LinkedSources(data, EdgeOf(data, edgeLabels[i]))]))

\* edgeNodes.outgoers('node[type="chg-node"]')
TargetsOf(data, edgeLabels) ==
    Uniq(Flatten([i \in DOMAIN edgeLabels |->
                    IF HasTargetLink(data, EdgeOf(data, edgeLabels[i]))
                    THEN <<EdgeOf(data, edgeLabels[i]).target>> ELSE <<>>]))

\* edgeNodes.incomers('edge') and edgeNodes.outgoers('edge')
LinksInto(data, edgeLabels) ==
    UNION {{SourceLinkId(edgeLabels[i], l) : l \in SeqToSet(LinkedSources(data, EdgeOf(data, edgeLabels[i])))} :
           i \in DOMAIN edgeLabels}

LinksOutOf(data, edgeLabels) ==
    {TargetLinkId(edgeLabels[i]) : i \in {j \in DOMAIN edgeLabels : HasTargetLink(data, EdgeOf(data, edgeLabels[j]))}}

Ids(labels, kind) == [i \in DOMAIN labels |-> <<kind, labels[i], "">>]

\* a stacking that starts at y = 0 and is not centered
positionGroupFromTop(pos, arr, x) ==
    [el \in DOMAIN pos |->
        IF \E i \in DOMAIN arr : arr[i] = el
        THEN LET i == CHOOSE i \in DOMAIN arr : arr[i] = el
             IN  [by |-> "focus", x |-> x, y |-> (i - 1) * STEP]
        ELSE pos[el]]

\* el.position({x, y}) for each element of arr
positionGroup(pos, arr, x) ==
    LET n == Len(arr)
    IN  [el \in DOMAIN pos |->
            IF \E i \in DOMAIN arr : arr[i] = el
            THEN LET i == CHOOSE i \in DOMAIN arr : arr[i] = el
                 IN  [by |-> "focus", x |-> x, y |-> ((2 * (i - 1) - (n - 1)) * STEP) \div 2]
            ELSE pos[el]]

\* the named layout places every node; where is the layout's business
applyDisplayMode(e) ==
    [e EXCEPT !.mode = "overview",
              !.cls = [el \in DOMAIN e.cls |-> e.cls[el] \ FocusClasses],
              !.pos = [el \in DOMAIN e.pos |-> [by |-> "layout", x |-> 0, y |-> 0]]]

\* cy.elements().addClass('dimmed').removeClass('selected label-visible');
\* relevant.removeClass('dimmed'); labelled.addClass('label-visible');
\* central.addClass('selected')
focusClasses(cls, central, relevant, labelled) ==
    [el \in DOMAIN cls |->
        ((cls[el] \ FocusClasses) \cup (IF el \in relevant THEN {} ELSE {"dimmed"}))
            \cup (IF el \in labelled THEN {"label-visible"} ELSE {})
            \cup (IF el = central THEN {"selected"} ELSE {})]

applyFocusedNode(e, label) ==
    IF NodeId(label) \notin DOMAIN e.cls THEN applyDisplayMode(e)
    ELSE LET data == e.currentData
             central == NodeId(label)
             leadEdgeNodes == LeadEdges(data, label)
             leadSrcNodes == SourcesOf(data, leadEdgeNodes)
             leadCyEdges == LinksOutOf(data, leadEdgeNodes) \cup LinksInto(data, leadEdgeNodes)
             trailEdgeNodes == TrailEdges(data, label)
             trailTgtNodes == TargetsOf(data, trailEdgeNodes)
             trailCyEdges == {SourceLinkId(trailEdgeNodes[i], label) : i \in DOMAIN trailEdgeNodes}
                                \cup LinksOutOf(data, trailEdgeNodes)
             relevant == {central} \cup SeqToSet(Ids(leadEdgeNodes, "e")) \cup SeqToSet(Ids(leadSrcNodes, "n"))
                            \cup leadCyEdges \cup SeqToSet(Ids(trailEdgeNodes, "e"))
                            \cup SeqToSet(Ids(trailTgtNodes, "n")) \cup trailCyEdges
             labelled == SeqToSet(Ids(leadEdgeNodes, "e")) \cup SeqToSet(Ids(trailEdgeNodes, "e"))
             p0 == [e.pos EXCEPT ![central] = [by |-> "focus", x |-> 0, y |-> 0]]
             p1 == positionGroup(p0, Ids(leadEdgeNodes, "e"), -FocusNodeX)
             p2 == positionGroup(p1, Ids(leadSrcNodes, "n"), -FocusNodeX * 2)
             p3 == positionGroup(p2, Ids(trailEdgeNodes, "e"), FocusNodeX)
             p4 == positionGroup(p3, Ids(trailTgtNodes, "n"), FocusNodeX * 2)
         IN  [e EXCEPT !.mode = "node", !.cls = focusClasses(e.cls, central, relevant, labelled), !.pos = p4]

applyFocusedEdge(e, label) ==
    IF EdgeId(label) \notin DOMAIN e.cls THEN applyDisplayMode(e)
    ELSE LET data == e.currentData
             central == EdgeId(label)
             srcNodes == SourcesOf(data, <<label>>)
             tgtNodes == TargetsOf(data, <<label>>)
             cyEdges == LinksInto(data, <<label>>) \cup LinksOutOf(data, <<label>>)
             relevant == {central} \cup SeqToSet(Ids(srcNodes, "n")) \cup SeqToSet(Ids(tgtNodes, "n")) \cup cyEdges
             p0 == [e.pos EXCEPT ![central] = [by |-> "focus", x |-> 0, y |-> 0]]
             p1 == positionGroup(p0, Ids(srcNodes, "n"), -FocusEdgeX)
             p2 == positionGroup(p1, Ids(tgtNodes, "n"), FocusEdgeX)
         IN  [e EXCEPT !.mode = "edge", !.cls = focusClasses(e.cls, central, relevant, {central}), !.pos = p2]

\* a kind other than NODE or EDGE leaves the view as it is
applySelection(e, kind, label) ==
    LET e1 == [e EXCEPT !.selectedKind = kind, !.selectedLabel = label]
    IN  IF Falsy(kind) \/ Falsy(label) THEN applyDisplayMode(e1)
        ELSE IF kind = "NODE" THEN applyFocusedNode(e1, label)
        ELSE IF kind = "EDGE" THEN applyFocusedEdge(e1, label)
        ELSE e1

\* the two ends of a link
LinkEnds(data, el) ==
    IF el[1] = "se" THEN {NodeId(el[3]), EdgeId(el[2])}
    ELSE {EdgeId(el[2]), NodeId(EdgeOf(data, el[2]).target)}

\* a link is highlighted as soon as one of its ends is
applySimPathAnyEnd(e, path) ==
    LET marked == {el \in DOMAIN e.cls :
                     \/ el[1] = "n" /\ el[2] \in SeqToSet(path.nodes)
                     \/ el[1] = "e" /\ el[2] \in SeqToSet(path.edges)}
        links == {el \in DOMAIN e.cls : ~IsCyNode(el) /\ LinkEnds(e.currentData, el) \cap marked # {}}
    IN  [e EXCEPT !.currentSimPath = path,
                  !.cls = [el \in DOMAIN e.cls |->
                             IF el \in marked \cup links THEN e.cls[el] \cup {"sim-path"}
                             ELSE e.cls[el] \ {"sim-path"}]]

applySimPath(e, path) ==
    LET marked == {el \in DOMAIN e.cls :
                     \/ el[1] = "n" /\ el[2] \in SeqToSet(path.nodes)
                     \/ el[1] = "e" /\ el[2] \in SeqToSet(path.edges)}
        links == {el \in DOMAIN e.cls : ~IsCyNode(el) /\ LinkEnds(e.currentData, el) \subseteq marked}
    IN  [e EXCEPT !.currentSimPath = path,
                  !.cls = [el \in DOMAIN e.cls |->
                             IF el \in marked \cup links THEN e.cls[el] \cup {"sim-path"}
                             ELSE e.cls[el] \ {"sim-path"}]]

WvClearSimPath(e) ==
    [e EXCEPT !.currentSimPath = NoPath, !.cls = [el \in DOMAIN e.cls |-> e.cls[el] \ {"sim-path"}]]

WvSetSimPath(e, path) == applySimPath(e, path)

\* 'setData' without the pass that applies the path again
WvSetDataNoOverlay(e, data) ==
    LET els == buildElements(data)
        e1 == [e EXCEPT !.currentData = data,
                        !.cls = [el \in els |-> {}],
                        !.pos = [el \in {x \in els : IsCyNode(x)} |-> [by |-> "add", x |-> 0, y |-> 0]]]
    IN  applySelection(e1, e1.selectedKind, e1.selectedLabel)

\* 'setData': the elements are removed and built again, without classes and
\* at cytoscape's default position
WvSetData(e, data) ==
    LET els == buildElements(data)
        e1 == [e EXCEPT !.currentData = data,
                        !.cls = [el \in els |-> {}],
                        !.pos = [el \in {x \in els : IsCyNode(x)} |-> [by |-> "add", x |-> 0, y |-> 0]]]
        e2 == IF e1.currentSimPath # NoPath THEN applySimPath(e1, e1.currentSimPath) ELSE e1
    IN  applySelection(e2, e2.selectedKind, e2.selectedLabel)

WvSetSelection(e, kind, label) == applySelection(e, kind, label)

WvSetLayout(e, layout) == applyDisplayMode([e EXCEPT !.lastLayout = IF Falsy(layout) THEN "grid" ELSE layout])

\* the elements the graph view shows
EditorElements == buildElements(editor.currentData)

-----------------------------------------------------------------------------
(* ChgEditorProvider: the closures of resolveCustomTextEditor.  A message   *)
(* posted to a live webview is handled by the page in posting order; the    *)
(* page's handler runs here in the step that posts.                         *)

postData(w, text) ==
    IF w.editor.open THEN [w EXCEPT !.editor = WvSetData(@, parseChgData(text))] ELSE w

postSelection(w) ==
    IF w.editor.open THEN [w EXCEPT !.editor = WvSetSelection(@, w.st.kind, w.st.label)] ELSE w

postLayout(w, layout) ==
    IF w.editor.open THEN [w EXCEPT !.editor = WvSetLayout(@, layout)] ELSE w

postSimPath(w, path) ==
    IF ~w.editor.open THEN w
    ELSE IF path # NoPath THEN [w EXCEPT !.editor = WvSetSimPath(@, path)]
    ELSE [w EXCEPT !.editor = WvClearSimPath(@)]

-----------------------------------------------------------------------------
(* ChgSimulateProvider: value predicate and posts to its webview *)

NonEmpty(v) == v # Undefined /\ v # Null /\ v # ""

FrameIndex(frames, name) ==
    IF \E i \in DOMAIN frames : frames[i].name = name
    THEN CHOOSE i \in DOMAIN frames : frames[i].name = name /\ \A j \in 1..(i - 1) : frames[j].name # name
    ELSE 0

EntryIndex(entries, label) ==
    IF \E i \in DOMAIN entries : entries[i].label = label
    THEN CHOOSE i \in DOMAIN entries : entries[i].label = label /\ \A j \in 1..(i - 1) : entries[j].label # label
    ELSE 0

NodeIndex(nodes, label) ==
    IF \E i \in DOMAIN nodes : nodes[i].label = label
    THEN CHOOSE i \in DOMAIN nodes : nodes[i].label = label /\ \A j \in 1..(i - 1) : nodes[j].label # label
    ELSE 0

Truthy(b) == ~Falsy(b)

selectedNodeHasValue(s) ==
    IF s.kind # "NODE" \/ Falsy(s.label) \/ s.data = NoData THEN FALSE
    ELSE LET ni == NodeIndex(s.data.nodes, s.label)
         IN  IF ni = 0 THEN FALSE
             ELSE LET node == s.data.nodes[ni]
                      fi == IF Falsy(s.currentFrame) THEN 0 ELSE FrameIndex(s.data.frames, s.currentFrame)
                  IN  IF Truthy(Coalesce(node.is_constant, node.constant)) THEN NonEmpty(node.value)
                      ELSE IF fi # 0
                      THEN LET ei == EntryIndex(s.data.frames[fi].entries, s.label)
                           IN  IF ei = 0 THEN FALSE
                               ELSE LET v == s.data.frames[fi].entries[ei].vals
                                    IN  Len(v) > 0 /\ NonEmpty(v[1])
                      ELSE NonEmpty(node.value)

simPostSelection(w) ==
    IF w.simView.resolved
    THEN [w EXCEPT !.simView.sectionShown = (w.st.kind = "NODE"),
                   !.simView.nodeHasValue = selectedNodeHasValue(w.st)]
    ELSE w

simPostSimPath(w, path) ==
    IF w.simView.resolved THEN [w EXCEPT !.simView.simPathActive = (path # NoPath)] ELSE w

-----------------------------------------------------------------------------
(* ChgState setters, each followed by the handlers subscribed to its event  *)
(* (vscode.EventEmitter.fire calls the listeners before it returns).        *)

setSelection(w, kind, label) ==
    LET w1 == Called([w EXCEPT !.st.kind = kind, !.st.label = label], "setSelection", label,
                     w.st.kind = kind /\ w.st.label = label)
        w2 == Fired(w1, "selection")
    IN  postSelection(simPostSelection(w2))

clearSelection(w) == setSelection(Called(w, "clearSelection", Null, FALSE), Null, Null)

\* a setter that notifies only when the value changes
setLayoutQuiet(w, layout) ==
    LET w1 == Called([w EXCEPT !.st.layout = layout], "setLayout", layout, w.st.layout = layout)
    IN  IF w.st.layout = layout THEN w1 ELSE postLayout(Fired(w1, "layout"), layout)

setLayout(w, layout) ==
    LET w1 == Called([w EXCEPT !.st.layout = layout], "setLayout", layout, w.st.layout = layout)
        w2 == Fired(w1, "layout")
    IN  postLayout(w2, layout)

setCurrentFrame(w, frame) ==
    LET w1 == Called([w EXCEPT !.st.currentFrame = frame], "setCurrentFrame", frame, w.st.currentFrame = frame)
        w2 == Fired(w1, "frame")
    IN  simPostSelection(w2)

setSimPath(w, path) ==
    LET w1 == Called([w EXCEPT !.st.simPath = path], "setSimPath", PathTarget(path), w.st.simPath = path)
        w2 == Fired(w1, "simPath")
    IN  postSimPath(simPostSimPath(w2, path), path)

\* the subscription without the target-node test
simOnDataChangeAlways(w) ==
    simPostSelection(IF w.st.simPath # NoPath THEN setSimPath(w, NoPath) ELSE w)

\* the simulate view's onDataChange subscription
simOnDataChange(w) ==
    LET sp == w.st.simPath
        w1 == IF sp # NoPath /\ ~HasNode(w.st.data, sp.targetNode) THEN setSimPath(w, NoPath) ELSE w
    IN  simPostSelection(w1)

\* a setData that drops the selection along with the old snapshot
setDataDeselect(w, data) ==
    LET w1 == Called([w EXCEPT !.st.data = data, !.st.kind = Null, !.st.label = Null], "setData", DataTag(data),
                     w.st.data = data)
        w2 == Fired(w1, "data")
    IN  IF w2.simView.resolved THEN simOnDataChange(w2) ELSE w2

setData(w, data) ==
    LET cf == w.st.currentFrame
        frame == IF data # NoData /\ Len(data.frameNames) > 0
                 THEN (IF Falsy(cf) \/ cf \notin SeqToSet(data.frameNames) THEN data.frameNames[1] ELSE cf)
                 ELSE IF data = NoData THEN Null
                 ELSE cf
        w1 == Called([w EXCEPT !.st.data = data, !.st.currentFrame = frame], "setData", DataTag(data),
                     w.st.data = data)
        w2 == Fired(w1, "data")
    IN  IF w2.simView.resolved THEN simOnDataChange(w2) ELSE w2

-----------------------------------------------------------------------------
(* extension.ts (activate): updateFromDocument and its helpers *)

PushEdit(w, text, origin, slot) ==
    [w EXCEPT !.pending = Append(@, [text |-> text, origin |-> origin, slot |-> slot])]

\* loadFromDocument without its null check
loadFromDocumentOverwrite(data, text) == parseChgData(text)

\* ChgOutlineProvider.loadFromDocument: the provider's data after the call
loadFromDocument(data, text) ==
    LET parsed == parseChgData(text)
    IN  IF parsed # NoData THEN parsed ELSE data

\* reads the document again and, when it has no frame, asks for "frame0"
ensureFrame0(w, text) ==
    IF ~IsJson(text) THEN w
    ELSE IF Len(getFrames(text)) = 0
    THEN PushEdit(w, Stringify(Put(text, "frames", <<[name |-> "frame0", entries |-> <<>>]>>)), "ensureFrame0", 0)
    ELSE w

updateFromDocument(w, text) ==
    LET w1 == [w EXCEPT !.prov = loadFromDocument(@, text)]
        data == w1.prov
        w2 == setData(w1, data)
    IN  IF data # NoData /\ Len(data.frameNames) = 0 THEN ensureFrame0(w2, text) ELSE w2

\* syncWithEditor when no .chg document is open
syncWithEditorClear(w) == setData([w EXCEPT !.prov = NoData], NoData)

\* the file watcher's onDidChange for a file that is not open as a document:
\* provider.loadFromPath alone
watcherOnDidChange(w, text) == [w EXCEPT !.prov = loadFromDocument(@, text)]

\* the two onDidChangeTextDocument listeners: activate's, then the editor panel's
onDidChangeTextDocument(w, text) == postData(updateFromDocument(w, text), text)

\* the same change event when the host calls the graph editor's listener first
onDidChangeTextDocumentEditorFirst(w, text) == updateFromDocument(postData(w, text), text)

-----------------------------------------------------------------------------
(* ChgDetailsProvider._getNodeValue and the value its form displays *)

\* _getNodeValue without the legacy fallback
getNodeValueNoFallback(s, node) ==
    IF Truthy(Coalesce(node.is_constant, node.constant)) THEN node.value
    ELSE IF Truthy(s.currentFrame) /\ s.data # NoData /\ FrameIndex(s.data.frames, s.currentFrame) # 0
    THEN LET entries == s.data.frames[FrameIndex(s.data.frames, s.currentFrame)].entries
             ei == EntryIndex(entries, node.label)
         IN  IF ei # 0 /\ Len(entries[ei].vals) > 0 THEN entries[ei].vals[1] ELSE Undefined
    ELSE Undefined

getNodeValue(s, node) ==
    IF Truthy(Coalesce(node.is_constant, node.constant)) THEN node.value
    ELSE IF Truthy(s.currentFrame) /\ s.data # NoData /\ FrameIndex(s.data.frames, s.currentFrame) # 0
    THEN LET entries == s.data.frames[FrameIndex(s.data.frames, s.currentFrame)].entries
             ei == EntryIndex(entries, node.label)
         IN  IF ei # 0
             THEN (IF Len(entries[ei].vals) > 0 THEN entries[ei].vals[1] ELSE Undefined)
             ELSE node.value
    ELSE node.value

\* _nodeForm: the Value field of the form rendered for the selected node
DetailsDisplayValue ==
    IF st.kind = "NODE" /\ HasNode(st.data, st.label)
    THEN getNodeValue(st, st.data.nodes[NodeIndex(st.data.nodes, st.label)])
    ELSE Undefined

-----------------------------------------------------------------------------
(* ChgDetailsProvider._updateNode / _updateEdge, field 'label' *)

RemoveAt(s, i) == [j \in 1..(Len(s) - 1) |-> IF j < i THEN s[j] ELSE s[j + 1]]

RenameInSources(src, old, new) ==
    IF src.form = "array"
    THEN [src EXCEPT !.items = [i \in DOMAIN src.items |->
                                  IF src.items[i].label = old THEN [src.items[i] EXCEPT !.label = new] ELSE src.items[i]]]
    ELSE src

RenameInEdge(e, old, new) ==
    [e EXCEPT !.source_nodes = RenameInSources(@, old, new),
              !.sources = RenameInSources(@, old, new),
              !.target = IF @ = old THEN new ELSE @]

\* frameData[newLabel] = frameData[nodeLabel]; delete frameData[nodeLabel]
RenameInFrame(fr, old, new) ==
    LET oi == EntryIndex(fr.entries, old)
        ni == EntryIndex(fr.entries, new)
    IN  IF oi = 0 \/ old = new THEN fr
        ELSE IF ni # 0
        THEN [fr EXCEPT !.entries = RemoveAt([fr.entries EXCEPT ![ni] = [fr.entries[oi] EXCEPT !.label = new]], oi)]
        ELSE [fr EXCEPT !.entries = Append(RemoveAt(fr.entries, oi), [fr.entries[oi] EXCEPT !.label = new])]

updateNodeLabel(raw, nodeLabel, newLabel) ==
    LET nodes == getNodes(raw)
        edges == getEdges(raw)
        ni == NodeIndex(nodes, nodeLabel)
    IN  IF ni = 0 THEN raw
        ELSE LET r1 == setEdges(raw, [i \in DOMAIN edges |-> RenameInEdge(edges[i], nodeLabel, newLabel)])
                 r2 == editFrames(r1, [i \in DOMAIN getFrames(raw) |->
                                          RenameInFrame(raw.frames[i], nodeLabel, newLabel)])
             IN  setNodes(r2, [nodes EXCEPT ![ni].label = newLabel])

updateEdgeLabel(raw, edgeLabel, newLabel) ==
    LET edges == getEdges(raw)
        ei == NodeIndex(edges, edgeLabel)
    IN  IF ei = 0 THEN raw ELSE setEdges(raw, [edges EXCEPT ![ei].label = newLabel])

\* _applyUpdate(field = 'label', value) up to the await of applyEdit
applyUpdateLabel(w, text, value) ==
    LET kind == w.st.kind
        label == w.st.label
    IN  IF Falsy(kind) \/ Falsy(label) \/ ~IsJson(text) THEN w
        ELSE IF kind = "NODE"
        THEN LET found == NodeIndex(getNodes(text), label) # 0
                 w1 == IF found THEN setSelection(w, "NODE", value) ELSE w
             IN  PushEdit(w1, Stringify(updateNodeLabel(text, label, value)), "details", 0)
        ELSE IF kind = "EDGE"
        THEN LET found == NodeIndex(getEdges(text), label) # 0
                 w1 == IF found THEN setSelection(w, "EDGE", value) ELSE w
             IN  PushEdit(w1, Stringify(updateEdgeLabel(text, label, value)), "details", 0)
        ELSE PushEdit(w, Stringify(text), "details", 0)

\* the index of the property `handle` in a handle -> label object, or 0
HandleIndex(items, handle) ==
    IF \E i \in DOMAIN items : items[i].handle = handle
    THEN CHOOSE i \in DOMAIN items : items[i].handle = handle
    ELSE 0

\* obj[newHandle] = obj[oldHandle]; delete obj[oldHandle]: a property that
\* exists keeps its place and takes the value, a new one is added last
MoveKey(items, oldHandle, newHandle) ==
    LET oi == HandleIndex(items, oldHandle)
        ni == HandleIndex(items, newHandle)
    IN  IF oi = 0 THEN items
        ELSE IF ni # 0 THEN RemoveAt([items EXCEPT ![ni].label = items[oi].label], oi)
        ELSE Append(RemoveAt(items, oi), [handle |-> newHandle, label |-> items[oi].label])

\* _updateEdge, field 'source-key:<oldHandle>' (the values typed here have no
\* surrounding white space)
updateEdgeSourceKey(raw, edgeLabel, oldHandle, value) ==
    LET edges == getEdges(raw)
        ei == NodeIndex(edges, edgeLabel)
    IN  IF ei = 0 \/ value = "" \/ value = oldHandle THEN raw
        ELSE IF edges[ei].source_nodes.form # "object" THEN raw
        ELSE setEdges(raw, [edges EXCEPT ![ei].source_nodes.items = MoveKey(@, oldHandle, value)])

\* _applyUpdate(field = 'source-key:<oldHandle>', value) up to the await of applyEdit
applyUpdateSourceKey(w, text, oldHandle, value) ==
    LET kind == w.st.kind
        label == w.st.label
    IN  IF Falsy(kind) \/ Falsy(label) \/ ~IsJson(text) THEN w
        ELSE IF kind = "EDGE"
        THEN PushEdit(w, Stringify(updateEdgeSourceKey(text, label, oldHandle, value)), "details", 0)
        ELSE PushEdit(w, Stringify(text), "details", 0)

-----------------------------------------------------------------------------
(* ChgOperationsProvider: each operation up to the await of applyEdit in   *)
(* _editJson; a mutate callback that returns false writes nothing          *)

NewNode(label) == [label |-> label, value |-> Undefined, is_constant |-> Undefined, constant |-> Undefined]
NewEdge(label) == [label |-> label, source_nodes |-> SrcArray(<<>>), sources |-> SrcNone, target |-> ""]

HasLabel(arr, label) == \E i \in DOMAIN arr : arr[i].label = label

addNode(w, text, label) ==
    IF ~IsJson(text) THEN w
    ELSE LET nodes == getNodes(text)
         IN  IF HasLabel(nodes, label) THEN w
             ELSE PushEdit(w, Stringify(setNodes(text, Append(nodes, NewNode(label)))), "addNode", 0)

addEdge(w, text, label) ==
    IF ~IsJson(text) THEN w
    ELSE LET edges == getEdges(text)
         IN  IF HasLabel(edges, label) THEN w
             ELSE PushEdit(w, Stringify(setEdges(text, Append(edges, NewEdge(label)))), "addEdge", 0)

\* e.source_nodes.filter(s => s !== label), for a sources value that is an array
FilterSources(src, label) ==
    IF src.form # "array" THEN src
    ELSE [src EXCEPT !.items = SelectSeq(@, LAMBDA it : Has(it, "obj") \/ it.label # label)]

RemoveFromEdge(e, label) ==
    [e EXCEPT !.source_nodes = FilterSources(@, label),
              !.sources = FilterSources(@, label),
              !.target = IF @ = label THEN "" ELSE @]

\* delete frameData[label]
RemoveFromFrame(fr, label) ==
    LET i == EntryIndex(fr.entries, label)
    IN  IF i = 0 THEN fr ELSE [fr EXCEPT !.entries = RemoveAt(@, i)]

\* the mutate callback of _removeNode
removeNodeFrom(raw, label) ==
    LET nodes == getNodes(raw)
        edges == getEdges(raw)
        r1 == setNodes(raw, RemoveAt(nodes, NodeIndex(nodes, label)))
        r2 == setEdges(r1, [i \in DOMAIN edges |-> RemoveFromEdge(edges[i], label)])
    IN  editFrames(r2, [i \in DOMAIN getFrames(raw) |-> RemoveFromFrame(raw.frames[i], label)])

\* _removeNode; without a write its setSelection(null, null) follows at once
removeNode(w, text) ==
    LET label == w.st.label
    IN  IF w.st.kind # "NODE" \/ Falsy(label) THEN w
        ELSE IF ~IsJson(text) \/ NodeIndex(getNodes(text), label) = 0 THEN setSelection(w, Null, Null)
        ELSE PushEdit(w, Stringify(removeNodeFrom(text, label)), "removeNode", 0)

removeEdge(w, text) ==
    LET label == w.st.label
        edges == getEdges(text)
    IN  IF w.st.kind # "EDGE" \/ Falsy(label) THEN w
        ELSE IF ~IsJson(text) \/ NodeIndex(edges, label) = 0 THEN setSelection(w, Null, Null)
        ELSE PushEdit(w, Stringify(setEdges(text, RemoveAt(edges, NodeIndex(edges, label)))), "removeEdge", 0)

\* _clearFrame: raw.frames[currentFrame] = {}
clearFrame(w, text) ==
    LET cf == w.st.currentFrame
        fi == FrameIndex(text.frames, cf)
        cleared == [name |-> cf, entries |-> <<>>]
    IN  IF Falsy(cf) \/ ~IsJson(text) \/ ~Has(text, "frames") THEN w
        ELSE PushEdit(w, Stringify([text EXCEPT !.frames = IF fi = 0 THEN Append(@, cleared)
                                                            ELSE [@ EXCEPT ![fi] = cleared]]), "clearFrame", 0)

\* what an operation does once its awaited applyEdit has returned
resumeAfterEdit(w, origin) ==
    IF origin \in {"removeNode", "removeEdge"} THEN setSelection(w, Null, Null) ELSE w

-----------------------------------------------------------------------------
(* ChgSimulateProvider._simulate and _writeSimulationResult *)

IdleSim == [pc |-> "idle", label |-> "", frameKey |-> "", solvable |-> FALSE,
            result |-> [error |-> Undefined, value |-> Undefined, target_node |-> Undefined,
                        has_path_nodes |-> FALSE, path_nodes |-> <<>>, path_edges |-> <<>>,
                        cost |-> 0, num_nodes |-> 0, num_edges |-> 0]]

\* raw.frames[frameKey][nodeLabel] = [value], creating the frame when missing
WriteFrameEntry(frames, frameKey, nodeLabel, value) ==
    LET fs == IF FrameIndex(frames, frameKey) = 0 THEN Append(frames, [name |-> frameKey, entries |-> <<>>]) ELSE frames
        fi == FrameIndex(fs, frameKey)
        ei == EntryIndex(fs[fi].entries, nodeLabel)
        en == [label |-> nodeLabel, arr |-> TRUE, vals |-> <<value>>]
    IN  IF ei = 0 THEN [fs EXCEPT ![fi].entries = Append(@, en)]
        ELSE [fs EXCEPT ![fi].entries[ei] = en]

\* _writeSimulationResult that builds the frames object anew
writeSimulationResultNewFrames(text, nodeLabel, value, frameKey) ==
    IF ~IsJson(text) THEN [edited |-> FALSE, raw |-> text]
    ELSE LET nodes == getNodes(text)
             ni == NodeIndex(nodes, nodeLabel)
         IN  IF ni = 0 THEN [edited |-> FALSE, raw |-> text]
             ELSE IF Truthy(Coalesce(nodes[ni].is_constant, nodes[ni].constant))
             THEN [edited |-> TRUE, raw |-> setNodes(text, [nodes EXCEPT ![ni].value = value])]
             ELSE IF frameKey # ""
             THEN [edited |-> TRUE,
                   raw |-> Put(text, "frames", WriteFrameEntry(<<>>, frameKey, nodeLabel, value))]
             ELSE [edited |-> TRUE, raw |-> setNodes(text, [nodes EXCEPT ![ni].value = value])]

\* _writeSimulationResult without the frame branch: always node.value
writeSimulationResultLegacy(text, nodeLabel, value, frameKey) ==
    IF ~IsJson(text) THEN [edited |-> FALSE, raw |-> text]
    ELSE LET nodes == getNodes(text)
             ni == NodeIndex(nodes, nodeLabel)
         IN  IF ni = 0 THEN [edited |-> FALSE, raw |-> text]
             ELSE [edited |-> TRUE, raw |-> setNodes(text, [nodes EXCEPT ![ni].value = value])]

\* the object _writeSimulationResult hands to JSON.stringify; edited says
\* whether it reaches applyEdit at all
writeSimulationResult(text, nodeLabel, value, frameKey) ==
    IF ~IsJson(text) THEN [edited |-> FALSE, raw |-> text]
    ELSE LET nodes == getNodes(text)
             ni == NodeIndex(nodes, nodeLabel)
         IN  IF ni = 0 THEN [edited |-> FALSE, raw |-> text]
             ELSE IF Truthy(Coalesce(nodes[ni].is_constant, nodes[ni].constant))
             THEN [edited |-> TRUE, raw |-> setNodes(text, [nodes EXCEPT ![ni].value = value])]
             ELSE IF frameKey # ""
             THEN [edited |-> TRUE,
                   raw |-> Put(text, "frames", WriteFrameEntry(getFrames(text), frameKey, nodeLabel, value))]
             ELSE [edited |-> TRUE, raw |-> setNodes(text, [nodes EXCEPT ![ni].value = value])]

\* frameVals of _updateNode: Array.isArray(frameVals) ? frameVals[0] : frameVals
FrameValue(en) == IF en.arr THEN (IF Len(en.vals) > 0 THEN en.vals[1] ELSE Undefined) ELSE en.vals[1]

\* _updateNode, field 'constant'
updateNodeConstant(raw, nodeLabel, newIsConstant, currentFrame) ==
    LET nodes == getNodes(raw)
        frames == getFrames(raw)
        ni == NodeIndex(nodes, nodeLabel)
        fi == IF Truthy(currentFrame) THEN FrameIndex(frames, currentFrame) ELSE 0
        ei == IF fi = 0 THEN 0 ELSE EntryIndex(frames[fi].entries, nodeLabel)
    IN  IF ni = 0 THEN raw
        ELSE IF newIsConstant
        THEN LET r1 == IF ei = 0 THEN raw
                       ELSE Put(raw, "frames", [frames EXCEPT ![fi].entries = RemoveAt(@, ei)])
                 value == IF ei = 0 THEN nodes[ni].value ELSE FrameValue(frames[fi].entries[ei])
             IN  setNodes(r1, [nodes EXCEPT ![ni].value = value, ![ni].is_constant = "true",
                                            ![ni].constant = Undefined])
        ELSE IF nodes[ni].value \notin {Undefined, Null, ""}
        THEN LET frame == Coalesce(currentFrame, "frame0")
                 r1 == Put(raw, "frames", WriteFrameEntry(frames, frame, nodeLabel, nodes[ni].value))
             IN  setNodes(r1, [nodes EXCEPT ![ni].value = Undefined, ![ni].is_constant = Undefined,
                                            ![ni].constant = Undefined])
        ELSE setNodes(raw, [nodes EXCEPT ![ni].is_constant = Undefined, ![ni].constant = Undefined])

\* _applyUpdate('constant', value) with a node selected
applyUpdateConstant(w, text, value) ==
    LET label == w.st.label
    IN  IF Falsy(w.st.kind) \/ Falsy(label) \/ ~IsJson(text) THEN w
        ELSE PushEdit(w, Stringify(updateNodeConstant(text, label, value, w.st.currentFrame)), "details", 0)

\* the annotation _simulate builds from a result
PathOf(result) ==
    [tag |-> "path", targetNode |-> result.target_node, nodes |-> result.path_nodes,
     edges |-> result.path_edges, cost |-> result.cost,
     numEdges |-> result.num_edges, numNodes |-> result.num_nodes]

HasPath(result) == result.target_node # Undefined /\ result.has_path_nodes

\* _simulate after the awaited write-back
simAnnotate(w, result) == IF HasPath(result) THEN setSimPath(w, PathOf(result)) ELSE w

\* _simulate without its error check
ResultIsErrorIgnored(result) == FALSE

\* if (result.error) { ... return; }
ResultIsError(result) == result.error # Undefined

-----------------------------------------------------------------------------
(* ChgSimulateProvider._runScript: the 'close' handler of the subprocess.   *)
(*   out  = [stdout, stderr, code]; stdout a sequence of lines              *)
(*   line = [kind]: "diag" (does not start with '{' once trimmed), "blank", *)
(*          "broken" (starts with '{', JSON.parse throws) or "json", which  *)
(*          has the object it parses to in field `result`                   *)

StartsWithBrace(line) == line.kind \in {"json", "broken"}

\* stdout.trim(): "" when nothing but white space was printed
StdoutText(out) == IF \E i \in DOMAIN out.stdout : out.stdout[i].kind # "blank" THEN "<stdout>" ELSE ""

\* stderr.trim() || stdout.trim() || `Process exited with code ${code}`
ErrorText(out) ==
    IF out.stderr # "" THEN out.stderr
    ELSE IF StdoutText(out) # "" THEN StdoutText(out)
    ELSE "Process exited with code"

ErrorResult(text) == [IdleSim.result EXCEPT !.error = text]

\* [...lines].reverse().find(l => l.trimStart().startsWith('{')) ?? '', parsed;
\* the exit code is read for the last fallback of the error text only
runScript(out) ==
    LET braces == {i \in DOMAIN out.stdout : StartsWithBrace(out.stdout[i])}
    IN  IF braces = {} THEN ErrorResult(ErrorText(out))
        ELSE LET last == CHOOSE i \in braces : \A j \in braces : j <= i
             IN  IF out.stdout[last].kind = "json" THEN out.stdout[last].result
                 ELSE ErrorResult(ErrorText(out))

-----------------------------------------------------------------------------
(* Inputs *)

NodeX == [label |-> "x", value |-> Undefined, is_constant |-> Undefined, constant |-> Undefined]
NodeY == [label |-> "y", value |-> "2", is_constant |-> "true", constant |-> Undefined]

EdgeArr == [label |-> "e1", source_nodes |-> SrcArray(<<"y">>), sources |-> SrcNone, target |-> "x"]
EdgeObj == [label |-> "e2", source_nodes |-> SrcObject(<<[handle |-> "a", label |-> "y"]>>), sources |-> SrcNone, target |-> "x"]

\* one edge with its sources as an array, one with a handle -> label object
DocFull == [shape |-> "flat", nodes |-> <<NodeY, NodeX>>, edges |-> <<EdgeArr, EdgeObj>>,
            frames |-> <<[name |-> "f0", entries |-> <<>>]>>]
DocNoFrames == [DocFull EXCEPT !.frames = <<>>]
DocNoX == [DocFull EXCEPT !.nodes = <<NodeY>>]
DocTwoFrames == [DocFull EXCEPT !.frames = <<[name |-> "f0", entries |-> <<>>],
                                             [name |-> "f1", entries |-> <<[label |-> "x", arr |-> TRUE, vals |-> <<"9">>]>>]>>]

\* x is a constant without a value yet
DocConstX == [DocFull EXCEPT !.nodes = <<NodeY, [NodeX EXCEPT !.is_constant = "true"]>>]

\* frame f0 holds a scalar entry for y and an empty entry for x
DocEntry == [DocFull EXCEPT !.frames = <<[name |-> "f0",
                                          entries |-> <<[label |-> "y", arr |-> FALSE, vals |-> <<"2">>],
                                                        [label |-> "x", arr |-> TRUE, vals |-> <<"">>]>>]>>]

\* documents that differ in where the value of x and of y is kept
ValueDoc(xValue, xEntry, yEntry) ==
    [shape |-> "flat", nodes |-> <<NodeY, [NodeX EXCEPT !.value = xValue]>>, edges |-> <<EdgeArr>>,
     frames |-> <<[name |-> "f0", entries |-> xEntry \o yEntry], [name |-> "f1", entries |-> <<>>]>>]

ValueTexts ==
    {ValueDoc(xValue, xEntry, yEntry) :
        xValue \in {Undefined, "7", ""},
        xEntry \in {<<>>, <<[label |-> "x", arr |-> TRUE, vals |-> <<"9">>]>>,
                    <<[label |-> "x", arr |-> TRUE, vals |-> <<>>]>>,
                    <<[label |-> "x", arr |-> FALSE, vals |-> <<"">>]>>},
        yEntry \in {<<>>, <<[label |-> "y", arr |-> TRUE, vals |-> <<"8">>]>>}}

\* e2 has x as its source and as its target; x and y feed each other
DocCycle == [DocFull EXCEPT !.edges = <<EdgeArr,
                                        [label |-> "e2", source_nodes |-> SrcArray(<<"x">>), sources |-> SrcNone, target |-> "x"],
                                        [label |-> "e3", source_nodes |-> SrcArray(<<"x", "y">>), sources |-> SrcNone, target |-> "y"]>>]

\* documents for the parser: arrays of nodes, of edges and frames objects
ParseNodes ==
    {<<>>, <<NodeY, NodeX>>, <<[NodeY EXCEPT !.label = Null], NodeX>>}

ParseEdges ==
    {<<>>,
     <<EdgeArr, EdgeObj>>,
     <<[label |-> "e1", source_nodes |-> SrcObject(<<[handle |-> "b", label |-> "y"], [handle |-> "0", label |-> "x"]>>),
        sources |-> SrcNone, target |-> "x"]>>,
     <<[EdgeArr EXCEPT !.label = Null],
       [label |-> "e2", source_nodes |-> SrcNone, sources |-> SrcArray(<<"x", "">>), target |-> Null]>>,
     <<[label |-> "e1", source_nodes |-> SrcArray(<<"y">>),
        sources |-> SrcObject(<<[handle |-> "a", label |-> "x"]>>), target |-> "z"],
       [label |-> "e2", source_nodes |-> SrcScalar, sources |-> SrcArray(<<"y">>), target |-> "x"]>>}

ParseFrames ==
    {<<>>,
     <<[name |-> "f0", entries |-> <<[label |-> "y", arr |-> FALSE, vals |-> <<"2">>],
                                     [label |-> "x", arr |-> TRUE, vals |-> <<"9", "8">>]>>]>>,
     <<[name |-> "b", entries |-> <<>>], [name |-> "1", entries |-> <<[label |-> "x", arr |-> TRUE, vals |-> <<>>]>>]>>,
     <<[name |-> "f0", entries |-> <<>>], [name |-> "f9", entries |-> <<>>, scalar |-> TRUE]>>}

ParseTexts ==
    {[shape |-> "flat", nodes |-> n, edges |-> e, frames |-> f] : n \in ParseNodes, e \in ParseEdges, f \in ParseFrames}
        \cup {BadText, [shape |-> "null"], [shape |-> "number"], [shape |-> "array"], [shape |-> "flat"],
              [shape |-> "flat", frames |-> <<[name |-> "f0", entries |-> <<>>]>>],
              [shape |-> "flat", nodes |-> <<NodeY, NodeX>>],
              [shape |-> "nested", hypergraph |-> [edges |-> <<EdgeArr>>]]}

\* what the user types into the text editor
\* the document {}: neither nodes, edges, hypergraph nor frames
DocBlank == [shape |-> "flat"]

\* the same graph in both layouts, and the empty object
OpsTexts == {DocFull, Nested(DocFull), DocBlank}

\* x is a source in an array, a source in a handle -> label object, a target,
\* and has a frame entry
DocRefs == [shape |-> "flat", nodes |-> <<NodeY, NodeX>>,
            edges |-> <<[label |-> "e1", source_nodes |-> SrcArray(<<"x", "y">>), sources |-> SrcNone, target |-> "x"],
                        [label |-> "e2", source_nodes |-> SrcObject(<<[handle |-> "a", label |-> "x"],
                                                                     [handle |-> "b", label |-> "y"]>>),
                         sources |-> SrcNone, target |-> "y"]>>,
            frames |-> <<[name |-> "f0", entries |-> <<[label |-> "x", arr |-> TRUE, vals |-> <<"9">>]>>]>>]

UserTexts == {DocFull, DocNoFrames, DocNoX, DocTwoFrames, BadText}

\* source handles shown and typed in the edge form
Handles == {"0", "1", "a", "b", "c"}

\* what the user types into the details panel's Label field
NewNodeLabels == {"z"}
NewEdgeLabels == {"e3"}

Layouts == {"circle"}

\* what the simulation subprocess can print for a run on `label`; it reads the
\* file it is given, so it has a value only for a node that file holds
ResError == [IdleSim.result EXCEPT !.error = "failed"]
ResOk(label) == [IdleSim.result EXCEPT !.value = "4", !.target_node = label, !.has_path_nodes = TRUE,
                                       !.path_nodes = <<"y", label>>, !.path_edges = <<"e1">>,
                                       !.cost = 1, !.num_nodes = 2, !.num_edges = 1]
ResNoPath == [IdleSim.result EXCEPT !.value = "4"]
Results(label, solvable) == IF solvable THEN {ResError, ResOk(label), ResNoPath} ELSE {ResError}

\* what the subprocess can write and how it can exit
Diag == [kind |-> "diag"]
Blank == [kind |-> "blank"]
Broken == [kind |-> "broken"]
Json(result) == [kind |-> "json", result |-> result]

Stdouts(label, solvable) ==
    {<<>>, <<Diag>>, <<Blank>>, <<Broken>>, <<Json(ResError)>>, <<Diag, Json(ResError)>>}
    \cup (IF solvable
          THEN {<<Json(ResOk(label))>>,
                <<Diag, Json(ResOk(label))>>,
                <<Json(ResNoPath), Diag, Json(ResOk(label)), Blank>>,
                <<Json(ResOk(label)), Broken>>}
          ELSE {})

Outputs(label, solvable) ==
    {[stdout |-> so, stderr |-> se, code |-> c] :
        so \in Stdouts(label, solvable), se \in {"", "Traceback"}, c \in {0, 1}}

\* getPythonPath() and _checkPackage()
Interpreters == {"detecting", "missing", "nopackage", "ok"}

Slots == 1..MaxSims

-----------------------------------------------------------------------------
(* State machine *)

World == [prov |-> provData, st |-> st, editor |-> editor, simView |-> simView,
          pending |-> pending, calls |-> <<>>, fires |-> <<>>]

Commit(w, op, a, b) ==
    /\ Len(w.pending) <= MaxPending
    /\ provData' = w.prov
    /\ st' = w.st
    /\ editor' = w.editor
    /\ simView' = w.simView
    /\ pending' = w.pending
    /\ ev' = [op |-> op, a |-> a, b |-> b, calls |-> w.calls, fires |-> w.fires]

Track(text) ==
    lastGood' = IF parseChgData(text) # NoData THEN parseChgData(text) ELSE lastGood

ClosedEditor == [open |-> FALSE, currentData |-> NoData, selectedKind |-> Null, selectedLabel |-> Null,
                 lastLayout |-> "grid", currentSimPath |-> NoPath, mode |-> "overview",
                 cls |-> [el \in {} |-> {}], pos |-> [el \in {} |-> [by |-> "add", x |-> 0, y |-> 0]]]

ClosedSimView == [resolved |-> FALSE, sectionShown |-> FALSE, nodeHasValue |-> FALSE, simPathActive |-> FALSE]

NewState == [kind |-> Null, label |-> Null, data |-> NoData, currentFrame |-> Null,
             layout |-> "grid", simPath |-> NoPath]

\* activate(): syncWithEditor() on the open document, one of `texts`
InitOn(texts) ==
    \E t \in texts :
        LET w0 == [prov |-> NoData, st |-> NewState, editor |-> ClosedEditor, simView |-> ClosedSimView,
                   pending |-> <<>>, calls |-> <<>>, fires |-> <<>>]
            w == updateFromDocument(w0, t)
        IN  /\ doc = t
            /\ provData = w.prov
            /\ st = w.st
            /\ editor = w.editor
            /\ simView = w.simView
            /\ pending = w.pending
            /\ sims = [k \in Slots |-> IdleSim]
            /\ ev = [op |-> "activate", a |-> "", b |-> "", calls |-> w.calls, fires |-> w.fires]
            /\ lastGood = parseChgData(t)

Init == InitOn(UserTexts)

\* the user edits the text: onDidChangeTextDocument
TypeText(t) ==
    /\ t # doc
    /\ doc' = t
    /\ Commit(onDidChangeTextDocument(World, t), "typeText", "", "")
    /\ Track(t)
    /\ UNCHANGED sims

\* onDidChangeActiveTextEditor while the document stays open: syncWithEditor
SyncWithEditor ==
    /\ Commit(updateFromDocument(World, doc), "syncWithEditor", "", "")
    /\ Track(doc)
    /\ UNCHANGED <<doc, sims>>

\* onDidOpenTextDocument: another .chg document, of text t, is opened and is
\* the document from now on
OpenDocument(t) ==
    /\ pending = <<>>
    /\ t # doc
    /\ doc' = t
    /\ Commit(updateFromDocument(World, t), "openDocument", "", "")
    /\ Track(t)
    /\ UNCHANGED sims

\* the last .chg document is closed: syncWithEditor finds none and clears.
\* No text is left to read.
CloseDocument ==
    /\ pending = <<>>
    /\ doc' = BadText
    /\ Commit(syncWithEditorClear(World), "clear", "", "")
    /\ UNCHANGED <<sims, lastGood>>

\* a .chg file that is not open changes on disk to text t
DiskChange(t) ==
    /\ Commit(watcherOnDidChange(World, t), "diskChange", "", "")
    /\ UNCHANGED <<doc, sims, lastGood>>

\* the host applies the oldest WorkspaceEdit and reports the change; the
\* awaiting _writeSimulationResult may then go on
ApplyEdit ==
    /\ pending # <<>>
    /\ LET e == Head(pending)
       IN  /\ doc' = e.text
           /\ Commit(resumeAfterEdit(onDidChangeTextDocument([World EXCEPT !.pending = Tail(pending)], e.text),
                                     e.origin),
                     "applyEdit", e.origin, "")
           /\ Track(e.text)
           /\ sims' = IF e.origin = "simulate" THEN [sims EXCEPT ![e.slot].pc = "applied"] ELSE sims

TypeTextEditorFirst(t) ==
    /\ t # doc
    /\ doc' = t
    /\ Commit(onDidChangeTextDocumentEditorFirst(World, t), "typeText", "editorFirst", "")
    /\ Track(t)
    /\ UNCHANGED sims

ApplyEditEditorFirst ==
    /\ pending # <<>>
    /\ LET e == Head(pending)
       IN  /\ doc' = e.text
           /\ Commit(resumeAfterEdit(onDidChangeTextDocumentEditorFirst([World EXCEPT !.pending = Tail(pending)],
                                                                        e.text), e.origin),
                     "applyEdit", e.origin, "editorFirst")
           /\ Track(e.text)
           /\ sims' = IF e.origin = "simulate" THEN [sims EXCEPT ![e.slot].pc = "applied"] ELSE sims

\* treeView.onDidChangeSelection: a node, node-ref, edge or edge-ref item
OutlineItems ==
    IF provData = NoData THEN {}
    ELSE {<<"NODE", provData.nodes[i].label>> : i \in DOMAIN provData.nodes}
         \cup {<<"EDGE", provData.edges[i].label>> : i \in DOMAIN provData.edges}
         \cup {<<"NODE", provData.edges[i].target>> : i \in DOMAIN provData.edges}
         \cup UNION {{<<"NODE", provData.edges[i].sources[j].label>> : j \in DOMAIN provData.edges[i].sources} :
                     i \in DOMAIN provData.edges}

OutlineSelect(kind, label) ==
    /\ <<kind, label>> \in OutlineItems
    /\ label # ""
    /\ Commit(setSelection(World, kind, label), "outlineSelect", "", "")
    /\ UNCHANGED <<doc, sims, lastGood>>

\* the graph page's tap handlers and the provider's 'select' / 'deselect' cases
EditorTap(kind, label) ==
    /\ editor.open
    /\ <<IF kind = "NODE" THEN "n" ELSE "e", label, "">> \in EditorElements
    /\ Commit(setSelection(World, kind, label), "editorSelect", "", "")
    /\ UNCHANGED <<doc, sims, lastGood>>

EditorDeselect ==
    /\ editor.open
    /\ Commit(setSelection(World, Null, Null), "editorDeselect", "", "")
    /\ UNCHANGED <<doc, sims, lastGood>>

ClearSelection ==
    /\ Commit(clearSelection(World), "clearSelection", "", "")
    /\ UNCHANGED <<doc, sims, lastGood>>

\* ChgOperationsProvider._selectFrame, from the frame list last posted
SelectFrame(frame) ==
    /\ st.data # NoData
    /\ frame \in SeqToSet(st.data.frameNames)
    /\ Truthy(frame)
    /\ Commit(setCurrentFrame(World, frame), "selectFrame", "", "")
    /\ UNCHANGED <<doc, sims, lastGood>>

\* ChgViewProvider: a layout button
SetLayout(layout) ==
    /\ Commit(setLayout(World, layout), "setLayout", "", "")
    /\ UNCHANGED <<doc, sims, lastGood>>

\* the details form is the one _buildHtml rendered for the current selection
DetailsFormShown ==
    \/ st.kind = "NODE" /\ Truthy(st.label) /\ HasNode(st.data, st.label)
    \/ st.kind = "EDGE" /\ Truthy(st.label) /\ HasEdge(st.data, st.label)

\* the Label field of the details form changes
DetailsUpdateLabel(value) ==
    /\ DetailsFormShown
    /\ value # st.label
    /\ Commit(applyUpdateLabel(World, doc, value), "updateLabel", st.label, value)
    /\ UNCHANGED <<doc, sims, lastGood>>

\* the Constant checkbox of the node form is clicked
DetailsUpdateConstant ==
    /\ DetailsFormShown
    /\ st.kind = "NODE"
    /\ LET node == st.data.nodes[NodeIndex(st.data.nodes, st.label)]
           checked == Truthy(Coalesce(node.is_constant, node.constant))
       IN  Commit(applyUpdateConstant(World, doc, ~checked), "updateConstant", st.label, ~checked)
    /\ UNCHANGED <<doc, sims, lastGood>>

\* a Key field of the edge form changes; the form has one per source of the
\* edge as st.data holds it
DetailsUpdateSourceKey(oldHandle, value) ==
    /\ DetailsFormShown
    /\ st.kind = "EDGE"
    /\ \E i \in DOMAIN st.data.edges :
          /\ st.data.edges[i].label = st.label
          /\ \E j \in DOMAIN st.data.edges[i].sources : st.data.edges[i].sources[j].handle = oldHandle
    /\ Commit(applyUpdateSourceKey(World, doc, oldHandle, value), "updateSourceKey", oldHandle, value)
    /\ UNCHANGED <<doc, sims, lastGood>>

\* the Operations view's buttons; the input box gave `label`
AddNode(label) ==
    /\ IsJson(doc) => Len(getNodes(doc)) < MaxNodes
    /\ Commit(addNode(World, doc, label), "addNode", label, "")
    /\ UNCHANGED <<doc, sims, lastGood>>

AddEdge(label) ==
    /\ IsJson(doc) => Len(getEdges(doc)) < MaxEdges
    /\ Commit(addEdge(World, doc, label), "addEdge", label, "")
    /\ UNCHANGED <<doc, sims, lastGood>>

RemoveNode ==
    /\ st.kind = "NODE"
    /\ Commit(removeNode(World, doc), "removeNode", st.label, "")
    /\ UNCHANGED <<doc, sims, lastGood>>

RemoveEdge ==
    /\ st.kind = "EDGE"
    /\ Commit(removeEdge(World, doc), "removeEdge", st.label, "")
    /\ UNCHANGED <<doc, sims, lastGood>>

ClearFrame ==
    /\ Truthy(st.currentFrame)
    /\ Commit(clearFrame(World, doc), "clearFrame", st.currentFrame, "")
    /\ UNCHANGED <<doc, sims, lastGood>>

\* resolveCustomTextEditor and the page's 'ready' message
EditorResolve ==
    /\ ~editor.open
    /\ LET w1 == [World EXCEPT !.editor.open = TRUE]
           w2 == postLayout(postSelection(postData(w1, doc)), st.layout)
           w3 == IF st.simPath # NoPath THEN postSimPath(w2, st.simPath) ELSE w2
       IN  Commit(w3, "editorResolve", "", "")
    /\ UNCHANGED <<doc, sims, lastGood>>

EditorDispose ==
    /\ editor.open
    /\ Commit([World EXCEPT !.editor = ClosedEditor], "editorDispose", "", "")
    /\ UNCHANGED <<doc, sims, lastGood>>

\* ChgSimulateProvider.resolveWebviewView / onDidDispose
SimViewResolve ==
    /\ ~simView.resolved
    /\ Commit(simPostSelection([World EXCEPT !.simView.resolved = TRUE]), "simViewResolve", "", "")
    /\ UNCHANGED <<doc, sims, lastGood>>

SimViewDispose ==
    /\ simView.resolved
    /\ Commit([World EXCEPT !.simView = ClosedSimView], "simViewDispose", "", "")
    /\ UNCHANGED <<doc, sims, lastGood>>

\* simBtn.onclick
SimButtonEnabled ==
    /\ simView.resolved
    /\ simView.sectionShown
    /\ ~(simView.nodeHasValue /\ ~simView.simPathActive)

\* a click posts 'simulate', and the message handler calls _simulate at once
SimRequestAccepted == SimButtonEnabled /\ ~simView.simPathActive

\* 'clearSimulation'
SimClear ==
    /\ SimButtonEnabled
    /\ simView.simPathActive
    /\ Commit(setSimPath(World, NoPath), "clearSimulation", "", "")
    /\ UNCHANGED <<doc, sims, lastGood>>

\* 'simulate': _simulate up to the spawn of the script
SimStart(k, py) ==
    /\ SimButtonEnabled
    /\ ~simView.simPathActive
    /\ sims[k].pc = "idle"
    /\ \A j \in 1..(k - 1) : sims[j].pc # "idle"
    /\ IF py = "ok" /\ st.kind = "NODE" /\ Truthy(st.label)
       THEN /\ sims' = [sims EXCEPT ![k] = [IdleSim EXCEPT !.pc = "running", !.label = st.label,
                                                           !.frameKey = Coalesce(st.currentFrame, ""),
                                                           !.solvable = IsJson(doc) /\ NodeIndex(getNodes(doc), st.label) # 0]]
            /\ Commit(World, "simulateStart", st.label, "")
       ELSE /\ sims' = sims
            /\ Commit(World, "simulateRefused", "", "")
    /\ UNCHANGED <<doc, lastGood>>

\* 'simulate' with the package check as a step of its own: _simulate up to
\* the await of _checkPackage.  The slot notes the node and frame selected at
\* the click.
SimRequest(k, py) ==
    /\ SimButtonEnabled
    /\ ~simView.simPathActive
    /\ sims[k].pc = "idle"
    /\ \A j \in 1..(k - 1) : sims[j].pc # "idle"
    /\ IF py \in {"detecting", "missing"}
       THEN /\ sims' = sims
            /\ Commit(World, "simulateRefused", "", "")
       ELSE /\ sims' = [sims EXCEPT ![k] = [IdleSim EXCEPT !.pc = "checking", !.label = st.label,
                                                           !.frameKey = Coalesce(st.currentFrame, "")]]
            /\ Commit(World, "simulateRequest", st.label, "")
    /\ UNCHANGED <<doc, lastGood>>

\* _checkPackage resolves: _simulate reads kind, label and currentFrame from
\* the store and spawns the script
SimChecked(k, hasPackage) ==
    /\ sims[k].pc = "checking"
    /\ IF hasPackage /\ st.kind = "NODE" /\ Truthy(st.label)
       THEN /\ sims' = [sims EXCEPT ![k] = [IdleSim EXCEPT !.pc = "running", !.label = st.label,
                                                           !.frameKey = Coalesce(st.currentFrame, ""),
                                                           !.solvable = IsJson(doc) /\ NodeIndex(getNodes(doc), st.label) # 0]]
            /\ Commit(World, "simulateStart", st.label, "")
       ELSE /\ sims' = [sims EXCEPT ![k] = IdleSim]
            /\ Commit(World, "simulateRefused", "", "")
    /\ UNCHANGED <<doc, lastGood>>

\* what the script printed: an object with an error, or a value
ResultKind(result) == IF result.error # Undefined THEN "error" ELSE "success"

\* the script exits: _simulate from the result to the await of applyEdit,
\* or to its end when nothing is written
SimFinish(k, result) ==
    /\ sims[k].pc = "running"
    /\ result \in Results(sims[k].label, sims[k].solvable)
    /\ IF ResultIsError(result)
       THEN /\ sims' = [sims EXCEPT ![k] = IdleSim]
            /\ Commit(World, "simulateResult", ResultKind(result), "failed")
       ELSE LET wr == writeSimulationResult(doc, sims[k].label, result.value, sims[k].frameKey)
            IN  IF wr.edited
                THEN /\ sims' = [sims EXCEPT ![k].pc = "writing", ![k].result = result]
                     /\ Commit(PushEdit(World, Stringify(wr.raw), "simulate", k),
                               "simulateResult", ResultKind(result), "writing")
                ELSE /\ sims' = [sims EXCEPT ![k] = IdleSim]
                     /\ Commit(simAnnotate(World, result), "simulateResult", ResultKind(result), "unwritten")
    /\ UNCHANGED <<doc, lastGood>>

\* the subprocess closes with `out`: _runScript resolves and _simulate goes on
\* as above
SimClose(k, out) ==
    /\ sims[k].pc = "running"
    /\ out \in Outputs(sims[k].label, sims[k].solvable)
    /\ LET result == runScript(out)
           seen == [out |-> out, result |-> result]
       IN  IF ResultIsError(result)
           THEN /\ sims' = [sims EXCEPT ![k] = IdleSim]
                /\ Commit(World, "simulateClose", ResultKind(result), seen)
           ELSE LET wr == writeSimulationResult(doc, sims[k].label, result.value, sims[k].frameKey)
                IN  IF wr.edited
                    THEN /\ sims' = [sims EXCEPT ![k].pc = "writing", ![k].result = result]
                         /\ Commit(PushEdit(World, Stringify(wr.raw), "simulate", k),
                                   "simulateClose", ResultKind(result), seen)
                    ELSE /\ sims' = [sims EXCEPT ![k] = IdleSim]
                         /\ Commit(simAnnotate(World, result), "simulateClose", ResultKind(result), seen)
    /\ UNCHANGED <<doc, lastGood>>

\* _simulate after the awaited write-back
SimAnnotate(k) ==
    /\ sims[k].pc = "applied"
    /\ sims' = [sims EXCEPT ![k] = IdleSim]
    /\ Commit(simAnnotate(World, sims[k].result), "simulateResumed", ResultKind(sims[k].result), "written")
    /\ UNCHANGED <<doc, lastGood>>

NodeNames == {"x", "y", "z"}
EdgeNames == {"e1", "e2", "e3"}
FrameNames == {"f0", "f1", "frame0"}

Select ==
    \E kind \in {"NODE", "EDGE"}, label \in NodeNames \cup EdgeNames :
        OutlineSelect(kind, label) \/ EditorTap(kind, label)

Simulate ==
    \/ \E k \in Slots, py \in Interpreters : SimStart(k, py)
    \/ \E k \in Slots, r \in UNION {Results(l, TRUE) : l \in NodeNames} : SimFinish(k, r)
    \/ \E k \in Slots : SimAnnotate(k)

Operate ==
    \/ \E l \in NodeNames : AddNode(l)
    \/ \E l \in EdgeNames : AddEdge(l)
    \/ RemoveNode
    \/ RemoveEdge
    \/ ClearFrame

\* every operation of the extension
Next ==
    \/ \E t \in UserTexts : TypeText(t)
    \/ ApplyEdit
    \/ Select
    \/ EditorDeselect
    \/ ClearSelection
    \/ \E f \in FrameNames : SelectFrame(f)
    \/ \E l \in Layouts : SetLayout(l)
    \/ \E v \in (IF st.kind = "NODE" THEN NewNodeLabels ELSE NewEdgeLabels) : DetailsUpdateLabel(v)
    \/ \E h \in Handles, v \in Handles \cup {""} : DetailsUpdateSourceKey(h, v)
    \/ EditorResolve
    \/ EditorDispose
    \/ SimViewResolve
    \/ SimViewDispose
    \/ SimClear
    \/ Simulate
    \/ \E k \in Slots, o \in UNION {Outputs(l, TRUE) : l \in NodeNames} : SimClose(k, o)
    \/ \E k \in Slots, py \in Interpreters : SimRequest(k, py)
    \/ SyncWithEditor
    \/ DetailsUpdateConstant
    \/ \E t \in UserTexts : OpenDocument(t) \/ DiskChange(t)
    \/ CloseDocument
    \/ \E k \in Slots, p \in BOOLEAN : SimChecked(k, p)
    \/ Operate

Spec == Init /\ [][Next]_vars

\* the Operations view and the details form on flat, nested and new
\* documents: nodes added, renamed and removed, an edge added, a frame cleared
NextOps ==
    \/ ApplyEdit
    \/ OutlineSelect("NODE", "x")
    \/ AddNode("z")
    \/ AddEdge("e3")
    \/ RemoveNode
    \/ ClearFrame
    \/ st.kind = "NODE" /\ DetailsUpdateLabel("y")

SpecOps == InitOn(OpsTexts) /\ [][NextOps]_vars

\* the same for edges: added, renamed and removed
NextEdgeOps ==
    \/ ApplyEdit
    \/ OutlineSelect("EDGE", "e1")
    \/ AddEdge("e3")
    \/ RemoveEdge
    \/ st.kind = "EDGE" /\ DetailsUpdateLabel("e2")

SpecEdgeOps == InitOn(OpsTexts) /\ [][NextEdgeOps]_vars

\* simulations whose subprocess output is read by _runScript
NextRun ==
    \/ \E t \in {DocFull, DocNoX} : TypeText(t)
    \/ ApplyEdit
    \/ OutlineSelect("NODE", "x")
    \/ SimViewResolve
    \/ SimClear
    \/ \E k \in Slots : SimStart(k, "ok") \/ SimAnnotate(k)
    \/ \E k \in Slots, o \in Outputs("x", TRUE) : SimClose(k, o)

SpecRun == InitOn({DocFull, DocNoX}) /\ [][NextRun]_vars

\* Delete Node on a document that refers to the node in every way
NextDelete ==
    \/ ApplyEdit
    \/ \E l \in {"x", "y"} : OutlineSelect("NODE", l)
    \/ RemoveNode
    \/ AddNode("z")
    \/ ClearFrame

SpecDelete == InitOn({DocRefs, Nested(DocRefs), DocFull}) /\ [][NextDelete]_vars

\* the Key fields of the edge form
NextHandles ==
    \/ \E t \in {DocRefs, Nested(DocRefs)} : TypeText(t)
    \/ ApplyEdit
    \/ \E l \in {"e1", "e2"} : OutlineSelect("EDGE", l)
    \/ \E h \in Handles, v \in Handles \cup {""} : DetailsUpdateSourceKey(h, v)

SpecHandles == InitOn({DocRefs, Nested(DocRefs)}) /\ [][NextHandles]_vars

\* a simulation while the selection and the active frame change
NextCapture ==
    \/ ApplyEdit
    \/ \E l \in {"x", "y"} : OutlineSelect("NODE", l)
    \/ \E f \in {"f0", "f1"} : SelectFrame(f)
    \/ SimViewResolve
    \/ \E k \in Slots, py \in {"missing", "ok"} : SimRequest(k, py)
    \/ \E k \in Slots, p \in BOOLEAN : SimChecked(k, p)
    \/ \E k \in Slots, l \in {"x", "y"} : SimFinish(k, ResOk(l))
    \/ \E k \in Slots : SimAnnotate(k)

SpecCapture == InitOn({DocTwoFrames}) /\ [][NextCapture]_vars

\* edits while the script of a simulation runs
Running == \E k \in Slots : sims[k].pc = "running"

NextRace ==
    \/ ApplyEdit
    \/ OutlineSelect("NODE", "x")
    \/ \E f \in {"f0", "f1"} : SelectFrame(f)
    \/ SimViewResolve
    \/ \E k \in Slots : SimStart(k, "ok") \/ SimFinish(k, ResOk("x")) \/ SimAnnotate(k)
    \/ Running /\ AddNode("z")
    \/ Running /\ AddEdge("e3")

SpecRace == InitOn({DocTwoFrames}) /\ [][NextRace]_vars

\* node x constant or not, with a value of its own, an entry in f0, both
ToggleDoc(flag, xValue, xEntry) ==
    [shape |-> "flat", nodes |-> <<NodeY, [NodeX EXCEPT !.value = xValue, !.is_constant = flag]>>,
     edges |-> <<EdgeArr>>,
     frames |-> <<[name |-> "f0", entries |-> xEntry], [name |-> "f1", entries |-> <<>>]>>]

ToggleTexts ==
    {ToggleDoc(flag, xValue, xEntry) :
        flag \in {Undefined, "true"},
        xValue \in {Undefined, "7", ""},
        xEntry \in {<<>>, <<[label |-> "x", arr |-> TRUE, vals |-> <<"9">>]>>,
                    <<[label |-> "x", arr |-> TRUE, vals |-> <<"9", "8">>]>>,
                    <<[label |-> "x", arr |-> FALSE, vals |-> <<"9">>]>>}}

NextToggle ==
    \/ ApplyEdit
    \/ OutlineSelect("NODE", "x")
    \/ \E f \in {"f0", "f1"} : SelectFrame(f)
    \/ DetailsUpdateConstant

SpecToggle == InitOn(ToggleTexts \cup {Nested(ToggleDoc(Undefined, "7", <<>>))}) /\ [][NextToggle]_vars

\* the only key of frames holds a value that is not an object: "frames": {"f9": 5}
DocScalarFrame == [DocFull EXCEPT !.frames = <<[name |-> "f9", entries |-> <<>>, scalar |-> TRUE]>>]

\* documents without a frame: no property, an empty object, in both layouts
BootTexts == {DocNoFrames, Nested(DocNoFrames), DocBlank, DocScalarFrame, DocFull}

\* a document is opened and nobody edits it: the views are used, the host
\* applies what the extension wrote
NextBoot ==
    \/ ApplyEdit
    \/ SyncWithEditor
    \/ \E l \in {"x", "y"} : OutlineSelect("NODE", l)
    \/ \E l \in Layouts : SetLayout(l)
    \/ EditorResolve
    \/ SimViewResolve

SpecBoot == InitOn(BootTexts) /\ [][NextBoot]_vars

\* what a step of ApplyEdit does to the text and to the edits in flight
HostApplies ==
    /\ pending # <<>>
    /\ doc' = Head(pending).text
    /\ pending' = LET text == Head(pending).text
                      data == loadFromDocument(provData, text)
                      rest == [pending |-> Tail(pending)]
                  IN  IF data # NoData /\ Len(data.frameNames) = 0 THEN ensureFrame0(rest, text).pending
                      ELSE rest.pending

\* the host applies every WorkspaceEdit handed to applyEdit
SpecBootFair == SpecBoot /\ WF_<<doc, pending>>(HostApplies)

\* the ways a document is loaded
LoadTexts == {DocFull, DocNoX, DocNoFrames, BadText}

NextLoad ==
    \/ \E t \in LoadTexts : TypeText(t)
    \/ ApplyEdit
    \/ SyncWithEditor
    \/ \E t \in LoadTexts : OpenDocument(t)
    \/ CloseDocument
    \/ \E t \in LoadTexts : DiskChange(t)
    \/ \E l \in {"x", "y"} : OutlineSelect("NODE", l)

SpecLoad == InitOn(LoadTexts) /\ [][NextLoad]_vars

\* parseChgData on its own: a text is opened, parsed, and then written again
\* in the other shape or from the model
InitParse ==
    /\ doc \in ParseTexts
    /\ provData = NoData
    /\ st = NewState
    /\ editor = ClosedEditor
    /\ simView = ClosedSimView
    /\ pending = <<>>
    /\ sims = [k \in Slots |-> IdleSim]
    /\ ev = [op |-> "open", a |-> "", b |-> "", calls |-> <<>>, fires |-> <<>>]
    /\ lastGood = NoData

ParseText ==
    /\ ev.op = "open"
    /\ provData' = parseChgData(doc)
    /\ ev' = [ev EXCEPT !.op = "parse"]
    /\ UNCHANGED <<doc, st, editor, simView, pending, sims, lastGood>>

ParseNested ==
    /\ ev.op = "parse"
    /\ doc.shape = "flat"
    /\ {"nodes", "edges", "frames"} \subseteq DOMAIN doc
    /\ doc' = Nested(doc)
    /\ provData' = parseChgData(doc')
    /\ ev' = [ev EXCEPT !.op = "nest"]
    /\ UNCHANGED <<st, editor, simView, pending, sims, lastGood>>

ParseReadBack ==
    /\ ev.op \in {"parse", "nest"}
    /\ provData # NoData
    /\ doc' = ReadBack(provData)
    /\ provData' = parseChgData(doc')
    /\ ev' = [ev EXCEPT !.op = "readBack"]
    /\ UNCHANGED <<st, editor, simView, pending, sims, lastGood>>

NextParse == ParseText \/ ParseNested \/ ParseReadBack

SpecParse == InitParse /\ [][NextParse]_vars

(* The properties are stated over the sub-systems below.  Each keeps the   *)
(* operations its claims are about and leaves the other panels idle.        *)

\* text edits, reparse, frame bootstrap, the graph view
NextEdit ==
    \/ \E t \in UserTexts : TypeText(t)
    \/ ApplyEdit
    \/ \E f \in FrameNames : SelectFrame(f)
    \/ EditorResolve
    \/ EditorDispose

SpecEdit == Init /\ [][NextEdit]_vars

\* simulation runs against text edits
NextSim ==
    \/ \E t \in {DocFull, DocNoX} : TypeText(t)
    \/ ApplyEdit
    \/ OutlineSelect("NODE", "x")
    \/ SimViewResolve
    \/ SimViewDispose
    \/ SimClear
    \/ Simulate

SpecSim == Init /\ [][NextSim]_vars

\* the write-back of a simulation result
NextWrite ==
    \/ \E t \in {DocFull, DocConstX, DocEntry} : TypeText(t)
    \/ ApplyEdit
    \/ OutlineSelect("NODE", "x")
    \/ \E f \in FrameNames : SelectFrame(f)
    \/ SimViewResolve
    \/ SimClear
    \/ \E k \in Slots : SimStart(k, "ok") \/ SimFinish(k, ResOk("x")) \/ SimAnnotate(k)

SpecWrite == Init /\ [][NextWrite]_vars

\* node values: constants, frame entries, legacy values
NextValue ==
    \/ \E t \in ValueTexts : TypeText(t)
    \/ ApplyEdit
    \/ \E label \in {"x", "y"} : OutlineSelect("NODE", label)
    \/ \E f \in FrameNames : SelectFrame(f)
    \/ SimViewResolve

SpecValue == Init /\ [][NextValue]_vars

\* the graph view: selection, layout and reparse
NextView ==
    \/ \E t \in {DocFull, DocCycle, DocNoX} : TypeText(t)
    \/ ApplyEdit
    \/ Select
    \/ EditorDeselect
    \/ \E l \in Layouts : SetLayout(l)
    \/ EditorResolve
    \/ EditorDispose

SpecView == Init /\ [][NextView]_vars

\* the graph view with a simulation path on it
NextOverlay ==
    \/ \E t \in {DocFull, DocNoX} : TypeText(t)
    \/ ApplyEdit
    \/ OutlineSelect("NODE", "x")
    \/ OutlineSelect("EDGE", "e1")
    \/ \E l \in Layouts : SetLayout(l)
    \/ EditorResolve
    \/ SimViewResolve
    \/ \E k \in Slots : SimStart(k, "ok") \/ SimFinish(k, ResOk("x")) \/ SimAnnotate(k)

SpecOverlay == Init /\ [][NextOverlay]_vars

\* reparses of the document while the graph view shows a simulation path;
\* the host may call the two document listeners in either order
NextReparse ==
    \/ \E t \in {DocFull, DocNoX} : TypeText(t) \/ TypeTextEditorFirst(t)
    \/ ApplyEdit
    \/ ApplyEditEditorFirst
    \/ OutlineSelect("NODE", "x")
    \/ EditorResolve
    \/ SimViewResolve
    \/ SimClear
    \/ \E k \in Slots : SimStart(k, "ok") \/ SimFinish(k, ResOk("x")) \/ SimAnnotate(k)

SpecReparse == Init /\ [][NextReparse]_vars

\* renames through the details panel
NextRename ==
    \/ \E t \in {DocFull, DocTwoFrames} : TypeText(t)
    \/ ApplyEdit
    \/ \E label \in NodeNames : OutlineSelect("NODE", label)
    \/ \E v \in NewNodeLabels : DetailsUpdateLabel(v)
    \/ EditorResolve

SpecRename == Init /\ [][NextRename]_vars

\* the store's setters
NextStore ==
    \/ \E t \in {DocFull, DocNoX} : TypeText(t)
    \/ OutlineSelect("NODE", "x")
    \/ ClearSelection
    \/ \E f \in FrameNames : SelectFrame(f)
    \/ \E l \in Layouts : SetLayout(l)
    \/ SimViewResolve
    \/ SimClear
    \/ \E k \in Slots : SimStart(k, "ok") \/ SimFinish(k, ResOk("x")) \/ SimAnnotate(k)
    \/ ApplyEdit

SpecStore == Init /\ [][NextStore]_vars

-----------------------------------------------------------------------------
(* Properties *)

Setters(calls) == {calls[i].setter : i \in DOMAIN calls}

\* the last step reparsed the document (updateFromDocument ran)
Reparsed == ev.op \in {"activate", "typeText", "applyEdit"}

\* C1: when a document change produces text that parseChgData rejects, then
\* after updateFromDocument the outline provider's data and ChgState.data are
\* both still the last successfully parsed model.
C1_LastGoodState ==
    (Reparsed /\ parseChgData(doc) = NoData) => (provData = lastGood /\ st.data = lastGood)

\* an invalid edit arrived after a model was loaded, and the model is kept
C1_Witness ==
    /\ ev.op = "typeText"
    /\ parseChgData(doc) = NoData
    /\ lastGood # NoData
    /\ provData = lastGood
    /\ st.data = lastGood

\* C2: after a document change whose text fails to parse, the graph webview's
\* element set is still the one built from the last successfully parsed model
\* (it is not emptied and currentData is not reset).
C2_ViewNotBlanked ==
    (editor.open /\ ev.op \in {"typeText", "applyEdit"} /\ parseChgData(doc) = NoData)
        => (editor.currentData = lastGood /\ EditorElements = buildElements(lastGood))

\* the frame ChgState.setData is claimed to leave active
ClaimedFrame(previous, data) ==
    IF data = NoData THEN Null
    ELSE IF Len(data.frameNames) = 0 THEN Null
    ELSE IF previous \in SeqToSet(data.frameNames) THEN previous
    ELSE data.frameNames[1]

\* C8: after every ChgState.setData(data), currentFrame is null or a member of
\* the new snapshot's frameNames: the previously active frame if it still
\* exists, otherwise the first of frameNames, and null when the snapshot is
\* null or has no frames.
C8_FrameAfterSetData ==
    [][("setData" \in Setters(ev'.calls) /\ ev'.op \in {"typeText", "applyEdit"})
          => st'.currentFrame = ClaimedFrame(st.currentFrame, st'.data)]_vars

\* a run of _simulate on a successful result came to its end in the last step
SimulationEnded ==
    /\ ev.op \in {"simulateResult", "simulateResumed"}
    /\ ev.a = "success"
    /\ ev.b \in {"written", "unwritten"}

\* ... and replaced the annotation
AnnotationReplaced == \E i \in DOMAIN ev.calls : ev.calls[i].setter = "setSimPath" /\ ev.calls[i].arg # Null

\* C3: for every successful simulation result the value write-back and the
\* replacement of ChgState.simPath are applied together: no run of _simulate
\* ends with the value written but the annotation not replaced, or the
\* annotation replaced but the value not written.
C3_SimulationAtomic == SimulationEnded => ((ev.b = "written") <=> AnnotationReplaced)

\* C4: whenever the document is reparsed (ChgState.setData) and the active
\* annotation's targetNode is not among the new snapshot's nodes, simPath is
\* cleared within that same reparse, whichever panels are resolved or disposed.
C4_PathInvalidated ==
    (Reparsed /\ "setData" \in Setters(ev.calls))
        => (st.simPath = NoPath \/ HasNode(st.data, st.simPath.targetNode))

\* C5: a reparse that leaves the annotation's targetNode among the nodes leaves
\* ChgState.simPath unchanged and fires no simPath notification.
C5_PathSurvivesReparse ==
    [][(/\ ev'.op \in {"typeText", "applyEdit"}
        /\ st.simPath # NoPath
        /\ HasNode(st'.data, st.simPath.targetNode))
          => (/\ st'.simPath = st.simPath
              /\ \A i \in DOMAIN ev'.fires : ev'.fires[i].event # "simPath")]_vars

\* the simulate view's subscription ran on a reparse and kept the annotation
C5_Witness ==
    /\ ev.op = "typeText"
    /\ simView.resolved
    /\ Setters(ev.calls) = {"setData"}
    /\ st.simPath # NoPath
    /\ HasNode(st.data, st.simPath.targetNode)

\* C10: when the simulation result carries an error, or the interpreter or
\* package check fails, _simulate performs no document edit and leaves
\* ChgState.data, simPath, the selection and the current frame as they were.
C10_ErrorLeavesModel ==
    [][((ev'.op = "simulateResult" /\ ev'.a = "error") \/ ev'.op = "simulateRefused")
          => (doc' = doc /\ pending' = pending /\ st' = st)]_vars

\* a run failed while an earlier annotation was active
C10_Witness ==
    /\ ev.op = "simulateResult"
    /\ ev.a = "error"
    /\ st.simPath # NoPath
    /\ HasNode(st.data, st.label)

\* the edit a rename hands to applyEdit
RenameResult == pending'[Len(pending')].text

RenamedLabel(l, old, new) == IF l = old THEN new ELSE l

SourcesRenamed(before, after, old, new) ==
    /\ after.form = before.form
    /\ Len(after.items) = Len(before.items)
    /\ \A j \in DOMAIN before.items :
           /\ after.items[j].handle = before.items[j].handle
           /\ after.items[j].label = RenamedLabel(before.items[j].label, old, new)

EdgeRenamed(before, after, old, new) ==
    /\ after.label = before.label
    /\ after.target = RenamedLabel(before.target, old, new)
    /\ SourcesRenamed(before.source_nodes, after.source_nodes, old, new)
    /\ SourcesRenamed(before.sources, after.sources, old, new)

FrameRenamed(before, after, old, new) ==
    /\ after.name = before.name
    /\ \A j \in DOMAIN after.entries : after.entries[j].label # old
    /\ \A j \in DOMAIN before.entries :
           \E k \in DOMAIN after.entries :
               /\ after.entries[k].label = RenamedLabel(before.entries[j].label, old, new)
               /\ after.entries[k].vals = before.entries[j].vals

\* C6: after renaming node old to a fresh label new through the details panel,
\* no edge of the resulting document references old as a source or target and
\* every reference that was old is new, every frame entry keyed old is keyed
\* new with the same value, and the selection is (NODE, new); for array-form
\* and for object-form sources alike.
C6_RenamePropagation ==
    [][(/\ ev'.op = "updateLabel"
        /\ st.kind = "NODE"
        /\ IsJson(doc)
        /\ NodeIndex(doc.nodes, ev'.a) # 0
        /\ NodeIndex(doc.nodes, ev'.b) = 0)
          => (/\ st'.kind = "NODE"
              /\ st'.label = ev'.b
              /\ Len(RenameResult.edges) = Len(doc.edges)
              /\ \A i \in DOMAIN doc.edges : EdgeRenamed(doc.edges[i], RenameResult.edges[i], ev'.a, ev'.b)
              /\ Len(RenameResult.frames) = Len(doc.frames)
              /\ \A i \in DOMAIN doc.frames : FrameRenamed(doc.frames[i], RenameResult.frames[i], ev'.a, ev'.b))]_vars

\* C7: at no notification delivered while the selected node is renamed does
\* the selection name a node label that the store's data snapshot lacks.
C7_RenameAtomic ==
    (ev.op = "updateLabel" /\ st.kind = "NODE") => \A i \in DOMAIN ev.fires : ~ev.fires[i].dangling

\* the event a setter's field belongs to
EventOf(setter) ==
    CASE setter = "setSelection" -> "selection"
      [] setter = "setData" -> "data"
      [] setter = "setLayout" -> "layout"
      [] setter = "setCurrentFrame" -> "frame"
      [] setter = "setSimPath" -> "simPath"

IsFieldSetter(c) == c.setter # "clearSelection"

\* C9: every ChgState setter updates its field and fires exactly one
\* notification per call, before it returns and on its field's own event
\* only, also when the new value equals the old one (clearSelection does so
\* through setSelection(null, null)).
C9_OneNotification ==
    LET direct == SelectSeq(ev.calls, IsFieldSetter)
    IN  /\ Len(ev.fires) = Len(direct)
        /\ \A i \in DOMAIN direct :
               /\ ev.fires[i].event = EventOf(direct[i].setter)
               /\ ev.fires[i].seen = direct[i].arg
        /\ \A i \in DOMAIN ev.calls :
               ev.calls[i].setter = "clearSelection"
                   => (/\ i < Len(ev.calls)
                       /\ ev.calls[i + 1].setter = "setSelection"
                       /\ ev.calls[i + 1].arg = Null)

\* a setter was called with the value its field already held, and notified
C9_Witness ==
    /\ ev.op = "setLayout"
    /\ Len(ev.calls) = 1
    /\ ev.calls[1].same
    /\ Len(ev.fires) = 1
    /\ ev.fires[1].event = "layout"

\* the entries of a frame other than the one for `label`
OtherEntries(frames, key, label) ==
    IF FrameIndex(frames, key) = 0 THEN {}
    ELSE LET entries == frames[FrameIndex(frames, key)].entries
         IN  {entries[i] : i \in {j \in DOMAIN entries : entries[j].label # label}}

\* frame `key` of `after` holds [value] for `label`; all else is as in `before`
FrameSlotWritten(before, after, key, label, value) ==
    LET fa == FrameIndex(after, key)
    IN  /\ fa # 0
        /\ Len(after) = Len(before) + (IF FrameIndex(before, key) = 0 THEN 1 ELSE 0)
        /\ \A i \in DOMAIN before : before[i].name # key => after[i] = before[i]
        /\ OtherEntries(after, key, label) = OtherEntries(before, key, label)
        /\ \E i \in DOMAIN after[fa].entries :
               /\ after[fa].entries[i] = [label |-> label, arr |-> TRUE, vals |-> <<value>>]
               /\ \A j \in DOMAIN after[fa].entries : after[fa].entries[j].label = label => j = i

\* `after` is `before` with the value in the slot of node `label`
SlotWritten(before, after, label, value, key) ==
    LET ni == NodeIndex(before.nodes, label)
        isConst == Truthy(Coalesce(before.nodes[ni].is_constant, before.nodes[ni].constant))
    IN  /\ after.shape = before.shape
        /\ after.edges = before.edges
        /\ isConst => (after.nodes = [before.nodes EXCEPT ![ni].value = value] /\ after.frames = before.frames)
        /\ (~isConst /\ key # "") =>
               (after.nodes = before.nodes /\ FrameSlotWritten(before.frames, after.frames, key, label, value))

\* C11: on a successful simulation the value goes into node.value when the
\* node is constant, otherwise into the active frame's entry for the node as
\* the one-element sequence [value], replacing an existing entry; nothing
\* else in the document changes.
C11_WriteBackSlot ==
    [][(ev'.op = "simulateResult" /\ ev'.b = "writing")
          => \A k \in Slots :
                (sims[k].pc = "running" /\ sims'[k].pc = "writing")
                    => SlotWritten(doc, pending'[Len(pending')].text, sims[k].label,
                                   sims'[k].result.value, sims[k].frameKey)]_vars

\* a result was written over an existing entry of the active frame
C11_Witness ==
    /\ ev.op = "simulateResult"
    /\ ev.b = "writing"
    /\ pending # <<>>
    /\ IsJson(doc)
    /\ FrameIndex(doc.frames, "f0") # 0
    /\ EntryIndex(doc.frames[FrameIndex(doc.frames, "f0")].entries, "x") # 0
    /\ \E k \in Slots : sims[k].pc = "writing" /\ sims[k].frameKey = "f0"
    /\ pending[Len(pending)].text.frames[1].entries[2] = [label |-> "x", arr |-> TRUE, vals |-> <<"4">>]

\* a run for the selected node is outstanding: the script has not finished,
\* or its write-back has not been applied
Outstanding(k) ==
    /\ sims[k].pc \in {"running", "writing"}
    /\ st.kind = "NODE"
    /\ st.label = sims[k].label

\* C12: while a simulation launched for a node is outstanding, no second
\* simulate request for that node can be started: the button is disabled
\* or the message is not acted on.
C12_NoSecondRequest == \A k \in Slots : Outstanding(k) => ~SimRequestAccepted

\* the selection names a node of the snapshot
SelectedNode == st.data.nodes[NodeIndex(st.data.nodes, st.label)]

NodeSelected == st.kind = "NODE" /\ HasNode(st.data, st.label)

\* C13: the predicate that gates simulation (_selectedNodeHasValue) is true
\* exactly when the node's effective value (_getNodeValue) is non-empty:
\* not undefined, null or ''.
C13_HasValueAgrees ==
    NodeSelected => (selectedNodeHasValue(st) <=> NonEmpty(getNodeValue(st, SelectedNode)))

\* the entry of node `label` in the active frame, <<>> when there is none
ActiveEntry(label) ==
    IF st.currentFrame \in {Null, ""} \/ FrameIndex(st.data.frames, st.currentFrame) = 0 THEN <<>>
    ELSE LET entries == st.data.frames[FrameIndex(st.data.frames, st.currentFrame)].entries
         IN  SelectSeq(entries, LAMBDA en : en.label = label)

FirstOf(vals) == IF vals = <<>> THEN Undefined ELSE Head(vals)

\* C14: the effective value of a constant node is node.value whatever the
\* active frame; of a non-constant node with an entry in the active frame,
\* the first element of that entry; of a non-constant node with no entry in
\* the active frame, or with no active frame, the legacy node.value.
C14_EffectiveValue ==
    NodeSelected =>
        LET node == SelectedNode
        IN  DetailsDisplayValue =
                (CASE node.is_constant = "true" -> node.value
                   [] node.is_constant # "true" /\ ActiveEntry(node.label) # <<>> -> FirstOf(ActiveEntry(node.label)[1].vals)
                   [] OTHER -> node.value)

\* a non-constant node with a legacy value and no entry in the active frame
C14_Witness ==
    /\ NodeSelected
    /\ st.label = "x"
    /\ st.currentFrame = "f1"
    /\ SelectedNode.value = "7"
    /\ ActiveEntry("x") = <<>>
    /\ ActiveEntry("y") = <<>>
    /\ DetailsDisplayValue = "7"
    /\ \E i \in DOMAIN st.data.frames : st.data.frames[i].name = "f0" /\ st.data.frames[i].entries # <<>>

\* the four groups of a node-focused view, as sets of labels
LeadingEdges(data, label) == {data.edges[i].label : i \in {j \in DOMAIN data.edges : data.edges[j].target = label}}

SourceSet(data, edgeLabel) ==
    {data.edges[i].sources[j].label :
        i \in {k \in DOMAIN data.edges : data.edges[k].label = edgeLabel}, j \in DOMAIN EdgeOf(data, edgeLabel).sources}
        \cap NodeLabels(data)

TrailingEdges(data, label) ==
    {data.edges[i].label : i \in {j \in DOMAIN data.edges : label \in SourceSet(data, data.edges[j].label)}}

LeadingSources(data, label) == UNION {SourceSet(data, e) : e \in LeadingEdges(data, label)}

TrailingTargets(data, label) == {EdgeOf(data, e).target : e \in TrailingEdges(data, label)} \cap NodeLabels(data)

\* the element was placed by a focus function in column k
InColumn(el, k, unit) == editor.pos[el].by = "focus" /\ editor.pos[el].x = k * unit

\* applyFocusedNode ran for the selected node
NodeFocused == editor.open /\ editor.mode = "node"

\* C15: after applyFocusedNode the selected node is at the origin, every
\* leading edge at x = -1 unit, every source of a leading edge at -2 units,
\* every trailing edge at +1 unit and every target of a trailing edge at +2
\* units, also when an edge or node belongs to more than one group.
C15_FocusColumns ==
    NodeFocused =>
        LET data == editor.currentData
            label == editor.selectedLabel
        IN  /\ editor.pos[NodeId(label)] = [by |-> "focus", x |-> 0, y |-> 0]
            /\ \A e \in LeadingEdges(data, label) : InColumn(EdgeId(e), -1, FocusNodeX)
            /\ \A n \in LeadingSources(data, label) : InColumn(NodeId(n), -2, FocusNodeX)
            /\ \A e \in TrailingEdges(data, label) : InColumn(EdgeId(e), 1, FocusNodeX)
            /\ \A n \in TrailingTargets(data, label) : InColumn(NodeId(n), 2, FocusNodeX)

\* the groups applyFocusedNode stacks for the selected node, in stacking order
FocusGroups ==
    LET data == editor.currentData
        label == editor.selectedLabel
    IN  <<Ids(LeadEdges(data, label), "e"), Ids(SourcesOf(data, LeadEdges(data, label)), "n"),
          Ids(TrailEdges(data, label), "e"), Ids(TargetsOf(data, TrailEdges(data, label)), "n")>>

RECURSIVE SumY(_, _)
SumY(pos, arr) == IF arr = <<>> THEN 0 ELSE pos[Head(arr)].y + SumY(pos, Tail(arr))

\* positionGroup gives the i-th (0-based) of n elements y = (i - (n-1)/2) * STEP
Stacked(arr) ==
    LET pos == positionGroup(editor.pos, arr, 0)
        n == Len(arr)
    IN  /\ \A i \in DOMAIN arr : 2 * pos[arr[i]].y = (2 * (i - 1) - (n - 1)) * STEP
        /\ SumY(pos, arr) = 0
        /\ \A i \in 1..(n - 1) : pos[arr[i + 1]].y - pos[arr[i]].y = STEP

WithClass(c) == {el \in DOMAIN editor.cls : c \in editor.cls[el]}

\* the node and edge-node elements of a node-focused view
FocusNodeElements(data, label) ==
    {NodeId(label)}
        \cup {EdgeId(e) : e \in LeadingEdges(data, label) \cup TrailingEdges(data, label)}
        \cup {NodeId(n) : n \in LeadingSources(data, label) \cup TrailingTargets(data, label)}

\* the links of the view that join two of the given elements
LinksAmong(els) ==
    {el \in DOMAIN editor.cls : ~IsCyNode(el) /\ LinkEnds(editor.currentData, el) \subseteq els}

\* C17: in the node-focused view the elements without 'dimmed' are exactly
\* the selected node, its leading edges, their sources, its trailing edges,
\* their targets and the links connecting them; every other element is still
\* there and dimmed; exactly the leading and trailing edge-nodes carry
\* 'label-visible' and exactly the selected node carries 'selected'.
C17_FocusVisible ==
    NodeFocused =>
        LET data == editor.currentData
            label == editor.selectedLabel
            shown == FocusNodeElements(data, label)
        IN  /\ DOMAIN editor.cls = buildElements(data)
            /\ DOMAIN editor.cls \ WithClass("dimmed") = shown \cup LinksAmong(shown)
            /\ WithClass("label-visible") =
                    {EdgeId(e) : e \in LeadingEdges(data, label) \cup TrailingEdges(data, label)}
            /\ WithClass("selected") = {NodeId(label)}

\* applyFocusedEdge ran for the selected edge
EdgeFocused == editor.open /\ editor.mode = "edge"

\* the target of an edge, when the document holds that node
TargetSet(data, edgeLabel) == {EdgeOf(data, edgeLabel).target} \cap NodeLabels(data)

\* C18: in the edge-focused view the elements without 'dimmed' are exactly
\* the edge, its source nodes, its target node and their connecting links;
\* the edge is at the origin with 'selected' and 'label-visible', every
\* source is in the column at -1 unit and the target in the column at +1
\* unit, also when one node is a source and the target.
C18_EdgeFocus ==
    EdgeFocused =>
        LET data == editor.currentData
            label == editor.selectedLabel
            shown == {EdgeId(label)} \cup {NodeId(n) : n \in SourceSet(data, label) \cup TargetSet(data, label)}
        IN  /\ DOMAIN editor.cls \ WithClass("dimmed") = shown \cup LinksAmong(shown)
            /\ editor.pos[EdgeId(label)] = [by |-> "focus", x |-> 0, y |-> 0]
            /\ WithClass("selected") = {EdgeId(label)}
            /\ WithClass("label-visible") = {EdgeId(label)}
            /\ \A n \in SourceSet(data, label) : InColumn(NodeId(n), -1, FocusEdgeX)
            /\ \A n \in TargetSet(data, label) : InColumn(NodeId(n), 1, FocusEdgeX)

\* the same for an edge whose target is not one of its sources
EdgeFocusOfDistinctEnds ==
    (EdgeFocused /\ SourceSet(editor.currentData, editor.selectedLabel)
                        \cap TargetSet(editor.currentData, editor.selectedLabel) # {}) \/ C18_EdgeFocus

\* the selection the page holds names a node, or an edge, of the page's data
ResolvesTo(kind) ==
    /\ editor.selectedKind = kind
    /\ Truthy(editor.selectedLabel)
    /\ editor.currentData # NoData
    /\ editor.selectedLabel \in
            (IF kind = "NODE" THEN NodeLabels(editor.currentData)
             ELSE {editor.currentData.edges[i].label : i \in DOMAIN editor.currentData.edges})

\* no element carries a class of a focused view
NoFocusClasses == \A el \in DOMAIN editor.cls : editor.cls[el] \cap FocusClasses = {}

\* C19: the view's mode is the one its selection and model determine:
\* node-focused when the selection resolves to a node, edge-focused when it
\* resolves to an edge, and otherwise Overview, in which no element carries
\* 'dimmed', 'selected' or 'label-visible'.
C19_ModeOfSelection ==
    editor.open =>
        /\ ResolvesTo("NODE") => editor.mode = "node"
        /\ ResolvesTo("EDGE") => editor.mode = "edge"
        /\ ~(ResolvesTo("NODE") \/ ResolvesTo("EDGE")) => editor.mode = "overview"
        /\ editor.mode = "overview" => NoFocusClasses

\* the part of it about a selection that does not resolve
UnresolvedIsOverview ==
    (editor.open /\ ~(ResolvesTo("NODE") \/ ResolvesTo("EDGE")))
        => (editor.mode = "overview" /\ NoFocusClasses)

\* the elements the annotation names: nodes of path.nodes, edge-nodes of
\* path.edges, and the links between two of them
OnPath(path) ==
    LET named == {el \in DOMAIN editor.cls :
                     \/ el[1] = "n" /\ \E i \in DOMAIN path.nodes : path.nodes[i] = el[2]
                     \/ el[1] = "e" /\ \E i \in DOMAIN path.edges : path.edges[i] = el[2]}
    IN  named \cup LinksAmong(named)

\* the view shows the store's annotation
OverlayShown == editor.open /\ st.simPath # NoPath => WithClass("sim-path") = OnPath(st.simPath)

\* a step that changes the selection or the layout
ViewChange == ev'.op \in {"outlineSelect", "editorSelect", "editorDeselect", "clearSelection", "setLayout"}

\* C20: with an active annotation and in every view mode, the elements
\* carrying 'sim-path' are exactly the nodes named in path.nodes, the
\* edge-nodes named in path.edges and the links both of whose ends carry
\* 'sim-path'; a change of selection or layout leaves 'sim-path' on the same
\* elements.
C20_SimPathOverlay ==
    /\ []OverlayShown
    /\ [][ViewChange => {el \in DOMAIN editor.cls' : "sim-path" \in editor.cls'[el]} = WithClass("sim-path")]_vars

\* a focused view with the path y, e1, x and its two links highlighted
C20_Witness ==
    /\ editor.open
    /\ st.simPath # NoPath
    /\ editor.mode = "edge"
    /\ ev.op = "outlineSelect"
    /\ WithClass("sim-path") = {NodeId("y"), NodeId("x"), EdgeId("e1"), SourceLinkId("e1", "y"), TargetLinkId("e1")}
    /\ WithClass("dimmed") # {}

\* a step in which the page handled a setData message
Rebuilt == ev'.op \in {"typeText", "applyEdit"} /\ editor'.open

\* C21: after every rebuild of the element set the 'sim-path' classes match
\* ChgState.simPath: with a path active the elements it lists that the new
\* model holds are highlighted (and no others), with no path active no
\* element is highlighted; in either order of the two document listeners.
C21_OverlayAfterRebuild ==
    [][Rebuilt =>
        (WithClass("sim-path") = IF st.simPath # NoPath THEN OnPath(st.simPath) ELSE {})']_vars

\* a reparse, the graph editor's listener first, that kept the path's target
C21_Witness ==
    /\ editor.open
    /\ ev.op = "typeText"
    /\ ev.a = "editorFirst"
    /\ st.simPath # NoPath
    /\ WithClass("sim-path") # {}

\* a reparse after which the store holds no path and the view had shown one
C21_WitnessCleared ==
    /\ editor.open
    /\ ev.op = "typeText"
    /\ "setSimPath" \in Setters(ev.calls)
    /\ st.simPath = NoPath
    /\ WithClass("sim-path") = {}

\* C22: for every nodes array, edges array and frames object, the flat
\* document {nodes, edges, frames} and the nested document
\* {hypergraph: {nodes, edges}, frames} parse to the same model.
C22_FlatNestedSame == [][ev'.op = "nest" => provData' = provData]_vars

\* a nested document whose model has nodes, an edge with sources and a frame
C22_Witness ==
    /\ ev.op = "nest"
    /\ Has(doc, "hypergraph")
    /\ provData # NoData
    /\ Len(provData.nodes) = 2
    /\ \E i \in DOMAIN provData.edges : provData.edges[i].sources # <<>>
    /\ provData.frameNames # <<>>

\* C23: a model obtained by parsing, written as JSON and parsed again, gives
\* an equal model: same nodes, same edges with the same source handles and
\* labels, same frames and frameNames.
C23_ParseIdempotent == [][ev'.op = "readBack" => provData' = provData]_vars

\* the same for the nodes, frames and frameNames alone
ReadBackKeepsNodesAndFrames ==
    [][ev'.op = "readBack" =>
        /\ provData'.nodes = provData.nodes
        /\ provData'.frames = provData.frames
        /\ provData'.frameNames = provData.frameNames
        /\ Len(provData'.edges) = Len(provData.edges)]_vars

\* the text is a JSON object with a nodes or edges array at the top level or
\* under 'hypergraph'
HasChgShape(text) ==
    /\ text.shape \in {"flat", "nested"}
    /\ LET hg == IF Has(text, "hypergraph") THEN text.hypergraph ELSE text
       IN  Has(hg, "nodes") \/ Has(hg, "edges")

\* C24: parseChgData returns failure for every text that is not valid JSON
\* and for every JSON value without the expected shape (a number, an array,
\* an empty object); it returns a model only for a flat or nested document.
C24_FailureOnOtherShapes ==
    ev.op = "parse" => (provData # NoData <=> HasChgShape(doc))

\* the part of it about texts JSON.parse rejects, and about null
InvalidTextFails ==
    (ev.op = "parse" /\ doc.shape \in {"invalid", "null"}) => provData = NoData

\* the sources the text gives an edge: 'source_nodes' before 'sources', an
\* array numbered from "0", an object key by key as written
SourcesAsWritten(e) ==
    LET rawSources == IF e.source_nodes.form # "none" THEN e.source_nodes ELSE e.sources
    IN  IF rawSources.form = "array"
        THEN [i \in DOMAIN rawSources.items |-> [handle |-> IdxStr(i - 1), label |-> rawSources.items[i].label]]
        ELSE IF rawSources.form = "object"
        THEN [i \in DOMAIN rawSources.items |->
                [handle |-> rawSources.items[i].handle, label |-> rawSources.items[i].label]]
        ELSE <<>>

\* the edges array the parser read
RawEdges(text) ==
    LET hg == IF Has(text, "hypergraph") THEN text.hypergraph ELSE text
    IN  IF Has(hg, "edges") THEN hg.edges ELSE <<>>

\* C25: every edge with a string label is kept, in document order, and the
\* others are skipped; a sources array of k labels gives handles "0".."k-1"
\* in order, a sources object one reference per key with the key as handle
\* in the object's order; 'source_nodes' goes before 'sources'; a target
\* that is not a string becomes ''.
C25_EdgeSources ==
    ev.op = "parse" /\ provData # NoData =>
        LET kept == SelectSeq(RawEdges(doc), HasStringLabel)
        IN  /\ Len(provData.edges) = Len(kept)
            /\ \A i \in DOMAIN kept :
                   /\ provData.edges[i].label = kept[i].label
                   /\ provData.edges[i].sources = SourcesAsWritten(kept[i])
                   /\ provData.edges[i].target = (IF IsString(kept[i].target) THEN kept[i].target ELSE "")

\* the same for documents whose source objects have no integer-like key
NoIndexHandle(text) ==
    \A i \in DOMAIN RawEdges(text) :
        \A j \in DOMAIN RawEdges(text)[i].source_nodes.items :
            KeyIndex(RawEdges(text)[i].source_nodes.items[j].handle) < 0

EdgeSourcesOfNamedHandles == (ev.op = "parse" /\ ~NoIndexHandle(doc)) \/ C25_EdgeSources

\* the frames object the parser read, key by key as written, without the
\* frames whose value is not an object
RawFrames(text) == IF Has(text, "frames") THEN SelectSeq(text.frames, IsObjectFrame) ELSE <<>>

\* C26: in every model parseChgData returns, every frames[f][label] is a
\* sequence (a scalar wrapped as a one-element sequence, a sequence kept as
\* it is) and frameNames lists exactly the keys of frames, each once, in
\* document order.
C26_FramesNormal ==
    ev.op = "parse" /\ provData # NoData =>
        LET raw == RawFrames(doc)
        IN  /\ provData.frameNames = [i \in DOMAIN raw |-> raw[i].name]
            /\ Len(provData.frames) = Len(provData.frameNames)
            /\ \A i \in DOMAIN provData.frames : provData.frames[i].name = provData.frameNames[i]
            /\ \A i, j \in DOMAIN provData.frameNames : provData.frameNames[i] = provData.frameNames[j] => i = j
            /\ \A i \in DOMAIN raw : \E k \in DOMAIN provData.frames :
                   /\ provData.frames[k].name = raw[i].name
                   /\ Len(provData.frames[k].entries) = Len(raw[i].entries)
                   /\ \A j \in DOMAIN raw[i].entries :
                          /\ provData.frames[k].entries[j].label = raw[i].entries[j].label
                          /\ provData.frames[k].entries[j].vals =
                                 (IF raw[i].entries[j].arr THEN raw[i].entries[j].vals
                                  ELSE <<raw[i].entries[j].vals[1]>>)

\* the same with frameNames compared as a set of keys
FramesNormalInSomeOrder ==
    ev.op = "parse" /\ provData # NoData =>
        /\ SeqToSet(provData.frameNames) = {RawFrames(doc)[i].name : i \in DOMAIN RawFrames(doc)}
        /\ Len(provData.frameNames) = Len(RawFrames(doc))

\* C28: for every edge the outline lists one child per source reference, in
\* order, and then the target; a child is marked missing exactly when its
\* label is not empty and no node has it; the parser keeps every source and
\* target reference whether or not the node exists.
C28_DanglingFlagged ==
    ev.op = "parse" /\ provData # NoData =>
        /\ \A i \in DOMAIN provData.edges :
               LET edge == provData.edges[i]
                   children == getChildrenEdge(provData, edge.label)
               IN  (\A j \in 1..(i - 1) : provData.edges[j].label # edge.label) =>
                       /\ Len(children) = Len(edge.sources) + 1
                       /\ \A k \in DOMAIN edge.sources : children[k].nodeLabel = edge.sources[k].label
                       /\ children[Len(children)].nodeLabel = edge.target
                       /\ \A k \in DOMAIN children :
                              children[k].missing <=>
                                  (children[k].nodeLabel # "" /\ ~HasNode(provData, children[k].nodeLabel))
        /\ LET kept == SelectSeq(RawEdges(doc), HasStringLabel)
           IN  \A i \in DOMAIN kept :
                   /\ Len(provData.edges[i].sources) = Len(SourcesAsWritten(kept[i]))
                   /\ IsString(kept[i].target) => provData.edges[i].target = kept[i].target

\* the same for edges none of whose sources has an empty label
DanglingFlaggedForNamedSources ==
    (ev.op = "parse" /\ provData # NoData /\
        \E i \in DOMAIN provData.edges : \E k \in DOMAIN provData.edges[i].sources :
            provData.edges[i].sources[k].label = "")
    \/ C28_DanglingFlagged

-----------------------------------------------------------------------------
(* Writes keep the document's layout *)

\* this step asked the host for an edit; it is the newest one in the queue
WroteEdit ==
    /\ pending' # <<>>
    /\ pending' # pending
    /\ ev'.op = "applyEdit" => pending' # Tail(pending)

Written == pending'[Len(pending')].text

\* the arrays parseChgData reads, as raw values
ReadNodes(text) ==
    LET hg == IF Has(text, "hypergraph") THEN text.hypergraph ELSE text
    IN  IF Has(hg, "nodes") THEN hg.nodes ELSE <<>>

ReadEdges(text) ==
    LET hg == IF Has(text, "hypergraph") THEN text.hypergraph ELSE text
    IN  IF Has(hg, "edges") THEN hg.edges ELSE <<>>

LabelsOf(arr) == [i \in DOMAIN arr |-> arr[i].label]

\* what the operation of this step does to the arrays that are read back
EffectRead ==
    LET nb == LabelsOf(ReadNodes(doc'))
        na == LabelsOf(ReadNodes(Written))
        eb == LabelsOf(ReadEdges(doc'))
        ea == LabelsOf(ReadEdges(Written))
    IN  /\ ev'.op = "addNode" => na = Append(nb, ev'.a) /\ ea = eb
        /\ ev'.op = "addEdge" => ea = Append(eb, ev'.a) /\ na = nb
        /\ ev'.op = "removeNode" => na = RemoveAt(nb, NodeIndex(ReadNodes(doc'), ev'.a)) /\ ea = eb
        /\ ev'.op = "removeEdge" => ea = RemoveAt(eb, NodeIndex(ReadEdges(doc'), ev'.a)) /\ na = nb
        /\ (ev'.op = "updateLabel" /\ st.kind = "NODE" /\ NodeIndex(ReadNodes(doc'), ev'.a) # 0)
              => na = [nb EXCEPT ![NodeIndex(ReadNodes(doc'), ev'.a)] = ev'.b] /\ ea = eb
        /\ (ev'.op = "updateLabel" /\ st.kind = "EDGE" /\ NodeIndex(ReadEdges(doc'), ev'.a) # 0)
              => ea = [eb EXCEPT ![NodeIndex(ReadEdges(doc'), ev'.a)] = ev'.b] /\ na = nb
        /\ ev'.op \in {"clearFrame", "applyEdit"} => na = nb /\ ea = eb

\* C27: every write keeps the layout of the document it was made from: a
\* document with a hypergraph object is written with one and gets no top-level
\* nodes or edges, a document without one is written without one (the empty
\* object gets top-level arrays), and the operation's change is in the arrays
\* parseChgData reads
C27_ShapePreserved ==
    [][WroteEdit =>
        /\ Has(Written, "hypergraph") = Has(doc', "hypergraph")
        /\ Has(Written, "hypergraph") => ~Has(Written, "nodes") /\ ~Has(Written, "edges")
        /\ Written.shape = doc'.shape
        /\ parseChgData(Written) # NoData
        /\ EffectRead]_vars

\* a node was added to a nested document and the host has applied the write
C27_Witness ==
    /\ ev.op = "applyEdit" /\ ev.a = "addNode"
    /\ Has(doc, "hypergraph")
    /\ HasNode(provData, "z")

\* the empty object got a top-level nodes array
C27_WitnessNew ==
    /\ ev.op = "applyEdit" /\ ev.a = "addNode"
    /\ ~Has(doc, "hypergraph") /\ Has(doc, "nodes") /\ ~Has(doc, "edges")

\* the same for the edge operations
EdgeWritesKeepShape ==
    [][WroteEdit =>
        /\ Has(Written, "hypergraph") = Has(doc', "hypergraph")
        /\ Has(Written, "hypergraph") => ~Has(Written, "nodes") /\ ~Has(Written, "edges")
        /\ EffectRead]_vars

\* simulation results written into a nested document
SpecNestedWrite == InitOn({Nested(DocFull)}) /\ [][NextWrite]_vars

SimWritesKeepShape ==
    [][(WroteEdit /\ ev'.op = "simulateResult") =>
        /\ Has(Written, "hypergraph") = Has(doc, "hypergraph")
        /\ Has(Written, "hypergraph") => ~Has(Written, "nodes") /\ ~Has(Written, "edges")
        /\ LabelsOf(ReadNodes(Written)) = LabelsOf(ReadNodes(doc))]_vars

NestedSimWritten ==
    /\ ev.op = "applyEdit" /\ ev.a = "simulate"
    /\ Has(doc, "hypergraph")

-----------------------------------------------------------------------------
(* Labels within a document *)

Distinct(labels) == \A i, j \in DOMAIN labels : labels[i] = labels[j] => i = j

UniqueLabels(text) ==
    /\ Distinct(LabelsOf(ReadNodes(text)))
    /\ Distinct(LabelsOf(ReadEdges(text)))

\* C29: the documents opened have pairwise distinct node labels and pairwise
\* distinct edge labels, and after any sequence of add, rename and remove
\* operations the document still has
C29_LabelsUnique == IsJson(doc) => UniqueLabels(doc)

\* adding and removing keep the labels distinct: a write made by any operation
\* but a rename, from a document with distinct labels, has distinct labels
AddRemoveKeepLabelsUnique ==
    [][(WroteEdit /\ ev'.op # "updateLabel" /\ UniqueLabels(doc')) => UniqueLabels(Written)]_vars

\* an add-node for a label the document already has writes nothing
AddExistingRefused ==
    [][(ev'.op = "addNode" /\ IsJson(doc) /\ HasLabel(ReadNodes(doc), ev'.a)) => pending' = pending]_vars

-----------------------------------------------------------------------------
(* The subprocess's output *)

Closed == ev'.op = "simulateClose"

NoParsableLine(out) ==
    \/ \A i \in DOMAIN out.stdout : ~StartsWithBrace(out.stdout[i])
    \/ \E i \in DOMAIN out.stdout :
          /\ out.stdout[i].kind = "broken"
          /\ \A j \in DOMAIN out.stdout : j > i => ~StartsWithBrace(out.stdout[j])

LastBraceLine(out) ==
    CHOOSE i \in DOMAIN out.stdout :
        /\ StartsWithBrace(out.stdout[i])
        /\ \A j \in DOMAIN out.stdout : j > i => ~StartsWithBrace(out.stdout[j])

\* C30: the result is the object on the last stdout line that starts with '{',
\* whatever other lines were printed; a non-zero exit code, or no such line
\* that parses, gives an error result, and the error is the standard-error
\* text
C30_OutputHandling ==
    [][Closed =>
        LET out == ev'.b.out
            result == ev'.b.result
        IN  /\ (out.code = 0 /\ ~NoParsableLine(out)) => result = out.stdout[LastBraceLine(out)].result
            /\ (out.code # 0 \/ NoParsableLine(out)) =>
                  /\ ev'.a = "error"
                  /\ out.stderr # "" => result.error = out.stderr]_vars

\* the same with the exit code left out: the last '{' line is the result when
\* it parses, and otherwise the result is an error with the standard-error
\* text, or what was printed when there is none
OutputHandlingByLastLine ==
    [][Closed =>
        LET out == ev'.b.out
            result == ev'.b.result
        IN  /\ ~NoParsableLine(out) => result = out.stdout[LastBraceLine(out)].result
            /\ NoParsableLine(out) =>
                  /\ ev'.a = "error"
                  /\ result.error # ""
                  /\ out.stderr # "" => result.error = out.stderr]_vars

\* a run that exited with code 1 was taken as a success and written back
NonZeroExitWritten ==
    /\ ev.op = "simulateClose" /\ ev.a = "success"
    /\ ev.b.out.code # 0
    /\ pending # <<>>

-----------------------------------------------------------------------------
(* The Simulate button *)

\* simBtn.disabled as updateSimBtn last set it
ButtonDisabled == simView.nodeHasValue /\ ~simView.simPathActive

\* C31: while the Simulate view shows a selected node, the button is disabled
\* exactly when that node has a value and the store holds no simulation path;
\* and while the store holds a path the button is enabled and a click clears
\* the path
C31_SimulateGating ==
    (simView.resolved /\ st.kind = "NODE") =>
        /\ ButtonDisabled <=> (selectedNodeHasValue(st) /\ st.simPath = NoPath)
        /\ st.simPath # NoPath => (~ButtonDisabled /\ simView.simPathActive)

\* the same for a view that was resolved before any path was set and has
\* lived since
GatingWhileViewLives ==
    (simView.resolved /\ st.kind = "NODE") =>
        /\ ButtonDisabled <=> (selectedNodeHasValue(st) /\ st.simPath = NoPath)
        /\ simView.simPathActive <=> st.simPath # NoPath

\* the view was opened again while a path was set: the button starts a run
StalePathFlag ==
    /\ simView.resolved /\ st.kind = "NODE"
    /\ st.simPath # NoPath
    /\ ~simView.simPathActive

-----------------------------------------------------------------------------
(* The selection across a reparse *)

\* the graph page is focused on the node, or the edge, `label`
FocusedOn(e, kind, label) ==
    /\ e.selectedKind = kind
    /\ e.selectedLabel = label
    /\ e.mode = (IF kind = "NODE" THEN "node" ELSE "edge")

SelectedIn(data) ==
    \/ st.kind = "NODE" /\ Truthy(st.label) /\ HasNode(data, st.label)
    \/ st.kind = "EDGE" /\ Truthy(st.label) /\ HasEdge(data, st.label)

\* C32: a reparse leaves the selection's kind and label and the layout as
\* they were, and when the new text still has the selected label (or has it
\* again) the open graph page is focused on it
C32_SelectionSurvivesReparse ==
    [][Reparsed' =>
        /\ st'.kind = st.kind /\ st'.label = st.label /\ st'.layout = st.layout
        /\ (editor'.open /\ SelectedIn(parseChgData(doc'))) => FocusedOn(editor', st.kind, st.label)]_vars

\* the selected node x was not in the text, and is focused again now that it is
C32_Witness ==
    /\ ev.op = "typeText" /\ editor.open
    /\ st.kind = "NODE" /\ st.label = "x"
    /\ HasNode(parseChgData(doc), "x")
    /\ FocusedOn(editor, "NODE", "x")

-----------------------------------------------------------------------------
(* Delete Node *)

\* the labels an edge of the model lists as sources
SourceLabels(edge) == {edge.sources[j].label : j \in DOMAIN edge.sources}

NoFrameEntry(data, l) ==
    \A i \in DOMAIN data.frames : \A j \in DOMAIN data.frames[i].entries : data.frames[i].entries[j].label # l

\* a write of Delete Node for the node ev'.a
DeleteWritten == ev'.op = "removeNode" /\ WroteEdit

DeleteApplied == ev'.op = "applyEdit" /\ ev'.a = "removeNode"

\* the written document, as parsed, no longer refers to the deleted node
DeletedEverywhere ==
    LET data == parseChgData(Written)
    IN  /\ ~HasNode(data, ev'.a)
        /\ \A i \in DOMAIN data.edges :
              ev'.a \notin SourceLabels(data.edges[i]) /\ data.edges[i].target # ev'.a
        /\ NoFrameEntry(data, ev'.a)

\* the same, but with sources written as an object left as they were
DeletedButFromObjects ==
    LET data == parseChgData(Written)
        raw == ReadEdges(Written)
        old == ReadEdges(doc)
    IN  /\ ~HasNode(data, ev'.a)
        /\ NoFrameEntry(data, ev'.a)
        /\ \A i \in DOMAIN raw :
              /\ raw[i].target # ev'.a
              /\ (old[i].target = ev'.a) => (raw[i].target = "")
              /\ (raw[i].source_nodes.form = "array") =>
                    (\A j \in DOMAIN raw[i].source_nodes.items : raw[i].source_nodes.items[j].label # ev'.a)
              /\ (raw[i].source_nodes.form = "object") => (raw[i].source_nodes = old[i].source_nodes)

SelectionCleared == st'.kind = Null /\ st'.label = Null

\* C33: the document Delete Node writes for the selected node has no such
\* node, no edge with it among its sources, whether they were written as an
\* array or as a handle -> label object, no edge with it as target, and no
\* frame entry for it; and once the write is applied the selection is clear
C33_DeleteCleansReferences ==
    [][(DeleteWritten => DeletedEverywhere) /\ (DeleteApplied => SelectionCleared)]_vars

DeleteCleansArrayReferences ==
    [][(DeleteWritten => DeletedButFromObjects) /\ (DeleteApplied => SelectionCleared)]_vars

\* x was deleted and an edge still names it
DeletedStillReferenced ==
    /\ ev.op = "applyEdit" /\ ev.a = "removeNode"
    /\ ~HasNode(provData, "x")
    /\ \E i \in DOMAIN provData.edges : "x" \in SourceLabels(provData.edges[i])

-----------------------------------------------------------------------------
(* Source handles *)

\* the sources of the selected edge, as the model of `text` has them
SelectedSources(text) ==
    LET data == parseChgData(text)
    IN  IF HasEdge(data, st.label)
        THEN data.edges[CHOOSE i \in DOMAIN data.edges : data.edges[i].label = st.label].sources
        ELSE <<>>

KeyRenamed == ev'.op = "updateSourceKey" /\ WroteEdit /\ ev'.b # ""

SameSources ==
    /\ Len(SelectedSources(Written)) = Len(SelectedSources(doc))
    /\ {SelectedSources(Written)[j].label : j \in DOMAIN SelectedSources(Written)}
         = {SelectedSources(doc)[j].label : j \in DOMAIN SelectedSources(doc)}

\* C34: a key of the selected edge renamed to any non-empty value, one that
\* another source of the edge has included, leaves the edge with as many
\* sources as before, referring to the same node labels
C34_HandleRenameKeepsSources == [][KeyRenamed => SameSources]_vars

\* the same for a value no source of the edge has yet
RenameToFreeHandleKeepsSources ==
    [][(KeyRenamed /\ \A j \in DOMAIN SelectedSources(doc) : SelectedSources(doc)[j].handle # ev'.b)
          => SameSources]_vars

\* edge e2 had two sources and has one after a key rename
SourceLost ==
    /\ ev.op = "applyEdit" /\ ev.a = "details"
    /\ HasEdge(provData, "e2")
    /\ \E i \in DOMAIN provData.edges : provData.edges[i].label = "e2" /\ Len(provData.edges[i].sources) = 1

-----------------------------------------------------------------------------
(* What a simulation writes to *)

\* the script is spawned for the node and frame selected at the click
SpawnedAsRequested ==
    \A k \in Slots :
        (sims[k].pc = "checking" /\ sims'[k].pc = "running")
            => (sims'[k].label = sims[k].label /\ sims'[k].frameKey = sims[k].frameKey)

\* the result is written to the slot of the node and frame the run was
\* spawned for
WrittenAsSpawned ==
    (ev'.op = "simulateResult" /\ ev'.b = "writing")
        => \A k \in Slots :
              (sims[k].pc = "running" /\ sims'[k].pc = "writing")
                  => SlotWritten(doc, pending'[Len(pending')].text, sims[k].label,
                                 sims'[k].result.value, sims[k].frameKey)

\* C35: a simulation writes its value to the node and the frame that were
\* selected when it was requested, whatever is selected when the script
\* returns
C35_WriteBackToRequested == [][SpawnedAsRequested /\ WrittenAsSpawned]_vars

\* from the spawn of the script on, the target is fixed
WriteBackToSpawned == [][WrittenAsSpawned]_vars

\* a value was written for x in f1 while y, or frame f0, is selected
WrittenWhileElsewhere ==
    /\ ev.op = "simulateResult" /\ ev.b = "writing"
    /\ \E k \in Slots :
          /\ sims[k].pc = "writing"
          /\ sims[k].label = "x" /\ sims[k].frameKey = "f1"
          /\ st.label = "y" \/ st.currentFrame = "f0"

-----------------------------------------------------------------------------
(* Edits made while a simulation runs *)

\* `after` holds all of `before` but the value kept for node `label` in
\* frame `key`
KeptBut(before, after, label, key) ==
    LET bn == getNodes(before)
        an == getNodes(after)
        bf == getFrames(before)
        af == getFrames(after)
    IN  /\ after.shape = before.shape
        /\ getEdges(after) = getEdges(before)
        /\ Len(an) = Len(bn)
        /\ \A i \in DOMAIN bn :
              IF bn[i].label = label THEN an[i] = [bn[i] EXCEPT !.value = an[i].value]
              ELSE an[i] = bn[i]
        /\ Len(af) >= Len(bf)
        /\ \A i \in DOMAIN bf :
              /\ af[i].name = bf[i].name
              /\ bf[i].name # key => af[i] = bf[i]
        /\ OtherEntries(af, key, label) = OtherEntries(bf, key, label)

-----------------------------------------------------------------------------
(* Observers of the active frame *)

FrameFired(e) == \E i \in DOMAIN e.fires : e.fires[i].event = "frame"

\* C37: whenever the store's currentFrame takes a new value, through
\* setCurrentFrame or through the auto-selection of setData, onFrameChange
\* fires within that operation.
C37_FrameChangeObserved == [][st'.currentFrame # st.currentFrame => FrameFired(ev')]_vars

\* a change of the active frame made through setCurrentFrame fires
SetCurrentFrameObserved ==
    [][(\E i \in DOMAIN ev'.calls : ev'.calls[i].setter = "setCurrentFrame") => FrameFired(ev')]_vars

\* setData moved the active frame and only onDataChange fired
FrameMovedUnobserved ==
    /\ ev.op \in {"typeText", "applyEdit"}
    /\ ~FrameFired(ev)
    /\ \E i \in DOMAIN ev.calls : ev.calls[i].setter = "setData"
    /\ st.currentFrame = "f0"
    /\ IsJson(doc) /\ Len(getFrames(doc)) = 1

-----------------------------------------------------------------------------
(* The outline's data and the store's *)

LoadPaths == {"activate", "typeText", "applyEdit", "syncWithEditor", "openDocument", "clear", "diskChange"}

\* C38: after every load path (a change of the document, a document opened,
\* a switch of the active editor, a change on disk seen by the file watcher,
\* a clear) ChgOutlineProvider.getData() and ChgState.data are the same model.
C38_OutlineMatchesStore == ev.op \in LoadPaths => provData = st.data

\* the same for every load path but the file watcher's
DocumentLoadsMatchStore == ev.op \in (LoadPaths \ {"diskChange"}) => provData = st.data

\* the outline shows the file read from disk, the store the document
OutlineAheadOfStore ==
    /\ ev.op = "diskChange"
    /\ provData # st.data
    /\ provData = parseChgData(DocNoX)
    /\ st.data = parseChgData(DocFull)

-----------------------------------------------------------------------------
(* The Constant checkbox *)

\* the value the node form shows for `label` once `text` is loaded
EffectiveIn(text, label) ==
    LET data == parseChgData(text)
    IN  getNodeValue([st EXCEPT !.data = data], data.nodes[NodeIndex(data.nodes, label)])

\* where `text` keeps the value of `label`: the node itself and the active frame
ValueSlot(text, label, frame) ==
    LET nodes == getNodes(text)
        frames == getFrames(text)
        fi == FrameIndex(frames, frame)
        ei == IF fi = 0 THEN 0 ELSE EntryIndex(frames[fi].entries, label)
    IN  [own |-> nodes[NodeIndex(nodes, label)].value,
         entry |-> IF ei = 0 THEN <<>> ELSE <<frames[fi].entries[ei]>>]

Toggled(text, label, to, frame) == Stringify(updateNodeConstant(text, label, to, frame))

\* the click wrote a text; `to` is the new state of the checkbox
ToggleWritten == ev'.op = "updateConstant" /\ Len(pending') = Len(pending) + 1

ValueKept == EffectiveIn(pending'[Len(pending')].text, st.label) = EffectiveIn(doc, st.label)

SlotRestored ==
    ValueSlot(Toggled(pending'[Len(pending')].text, st.label, ~ev'.b, st.currentFrame), st.label, st.currentFrame)
        = ValueSlot(doc, st.label, st.currentFrame)

\* C40: a click on the Constant checkbox leaves the value the form shows for
\* the node in the active frame as it was, and a second click puts the value
\* back into the slot it came from.
C40_ToggleKeepsValue == [][ToggleWritten => (ValueKept /\ SlotRestored)]_vars

\* a constant that has a value keeps it when the box is cleared; a node that
\* becomes constant keeps the value shown
ToggleOfValuedNodeKeepsValue ==
    [][(ToggleWritten /\ (ev'.b \/ ValueSlot(doc, st.label, st.currentFrame).own \notin {Undefined, Null, ""}))
          => ValueKept]_vars

\* the box of a constant without a value was cleared and the form shows the
\* entry the frame still held
ValueChangedByToggle ==
    /\ ev.op = "applyEdit" /\ ev.a = "details"
    /\ st.kind = "NODE" /\ st.label = "x" /\ st.currentFrame = "f0"
    /\ IsJson(doc)
    /\ getNodes(doc)[NodeIndex(getNodes(doc), "x")].is_constant = Undefined
    /\ getNodes(doc)[NodeIndex(getNodes(doc), "x")].value = Undefined
    /\ DetailsDisplayValue = "9"

-----------------------------------------------------------------------------
(* The first frame of a document *)

\* the document parsed into a model without frames
FramelessModel == IsJson(doc) /\ parseChgData(doc) # NoData /\ Len(parseChgData(doc).frameNames) = 0

\* the frames object of the text is missing or has no key
NoFrameKey == IsJson(doc) /\ parseChgData(doc) # NoData /\ Len(getFrames(doc)) = 0

Bootstrapped ==
    /\ IsJson(doc) /\ FrameIndex(getFrames(doc), "frame0") # 0
    /\ st.data # NoData /\ Len(st.data.frameNames) > 0
    /\ Truthy(st.currentFrame)

\* an edit of ensureFrame0 is applied to a text without a frame
BootstrapOnce == (ev'.op = "applyEdit" /\ ev'.a = "ensureFrame0") => Len(getFrames(doc)) = 0

\* C39: a document that parses into a model without frames gets the frame
\* "frame0" once the pending edits are applied: the model's frameNames is then
\* non-empty and currentFrame non-null; the edit is applied once.
C39_FrameBootstrap == (FramelessModel ~> Bootstrapped) /\ [][BootstrapOnce]_vars

\* the same for a text whose frames object is missing or empty
EmptyFramesBootstrap == NoFrameKey ~> Bootstrapped

\* a frames object whose only value is not an object: no frame in the model,
\* and ensureFrame0 has nothing to do
FramelessForGood ==
    /\ FramelessModel
    /\ ~NoFrameKey
    /\ pending = <<>>
    /\ st.data # NoData /\ Len(st.data.frameNames) = 0
    /\ Falsy(st.currentFrame)
    /\ ev.op = "syncWithEditor"
====
